---- MODULE Spec2Model ----
(***************************************************************************)
(* Screen Time Tracker firmware: the consumed-time timer (timer.cpp), the  *)
(* session manager (session_manager.cpp), the deep-sleep save/restore of   *)
(* main.cpp and the main screen's session handling (main_screen.cpp).      *)
(*                                                                         *)
(* uint32_t arithmetic is kept modular: every uint32_t sum, difference and *)
(* cast is reduced modulo U32, a scaled-down 2^32.  The clock never        *)
(* reaches U32 \div 2, as the real clock stays below 2^31.                 *)
(***************************************************************************)
EXTENDS Integers, Sequences, FiniteSets, TLC

VARIABLES
    timer,      \* ScreenTimer: state, totalAllowanceSeconds, consumedTodaySeconds, sessionStartTime
    now,        \* the wall clock, time(&now)
    h,          \* the last call: its number, operation, argument and return
                \* value, and the operation called before it
    ledger,     \* the sessions that have ended: their wall-clock total
    snapshot,   \* the SessionSnapshot last made by createSnapshot()
    nvs,        \* the consumed-time record in flash (PersistenceManager)
    pushed,     \* the sessions pushed to the Allowance Service, in order
    app,        \* AppState: the screen-time fields used by the session logic
    rtc,        \* the RTC_DATA_ATTR variables of main.cpp, kept through deep sleep
    ui,         \* where the firmware is (setup, loop, asleep), the dialog shown,
                \* the wake-up timer, and setup()'s restore flags
    atSleep,    \* the timer as it was when the device last went to sleep
    sleptAt,    \* the clock when the device last went to sleep
    atLoss,     \* whether the power was lost, and the completed time the timer
                \* held when it was
    polling,    \* PollingManager, the polling mode of NetworkManager, millis(),
                \* and the completion callbacks invoked and dropped
    parent      \* ParentScreen: the unlock state, and the A/B presses made
                \* since the screen was entered

sessionVars == <<snapshot, nvs, pushed>>

appVars == <<app, rtc, ui, atSleep, sleptAt, atLoss, polling, parent>>

vars ==
    <<timer, now, h, ledger, snapshot, nvs, pushed, app, rtc, ui, atSleep, sleptAt, atLoss,
      polling, parent>>

(***************************************************************************)
(* Bounds of the model.                                                    *)
(***************************************************************************)
\* uint32_t values are 0 .. U32 - 1 (a scaled-down 2^32)
U32 == 16777216
\* the clock at power-up of the model
T0 == 1
\* the timer-level specifications stop the clock here
MaxNow == 5
\* largest single step of the clock in the timer-level specifications
MaxStep == 2
\* number of calls made in one behaviour of the timer-level specifications
MaxCalls == 5
\* the clock stops at the end of this day (day 0 is the day of power-up)
MaxDays == 1

UINT32_MAX == U32 - 1

\* enum class TimerState
STOPPED == "STOPPED"
RUNNING == "RUNNING"
EXPIRED == "EXPIRED"
TimerStates == {STOPPED, RUNNING, EXPIRED}

\* (uint32_t) x
u32(x) == x % U32

(***************************************************************************)
(* ScreenTimer (timer.cpp).  A timer is a record; every method is an       *)
(* operator from the timer (and the clock reading) to the timer after the  *)
(* call, with the return value beside it where the method returns one.     *)
(***************************************************************************)
ScreenTimer ==
    [state |-> STOPPED, totalAllowanceSeconds |-> 0,
     consumedTodaySeconds |-> 0, sessionStartTime |-> 0]

calculateCurrentSessionSeconds(t, clk) ==
    IF t.state # RUNNING \/ t.sessionStartTime = 0 THEN 0
    ELSE IF clk <= t.sessionStartTime THEN 0
    ELSE u32(clk - t.sessionStartTime)

getTotalConsumedSeconds(t, clk) ==
    u32(t.consumedTodaySeconds + calculateCurrentSessionSeconds(t, clk))

calculateRemainingSeconds(t, clk) ==
    LET totalConsumed == getTotalConsumedSeconds(t, clk)
    IN  IF totalConsumed >= t.totalAllowanceSeconds THEN 0
        ELSE t.totalAllowanceSeconds - totalConsumed

isRunning(t) == t.state = RUNNING

isExpired(t) == t.state = EXPIRED

getCompletedSessionsSeconds(t) == t.consumedTodaySeconds

getSessionStartTime(t) == t.sessionStartTime

begin(t, allowanceSeconds, consumedSeconds) ==
    [state |-> IF consumedSeconds >= allowanceSeconds THEN EXPIRED ELSE STOPPED,
     totalAllowanceSeconds |-> allowanceSeconds,
     consumedTodaySeconds |-> consumedSeconds,
     sessionStartTime |-> 0]

reset(t, allowanceSeconds) ==
    [state |-> STOPPED,
     totalAllowanceSeconds |->
        IF allowanceSeconds > 0 THEN allowanceSeconds ELSE t.totalAllowanceSeconds,
     consumedTodaySeconds |-> 0,
     sessionStartTime |-> 0]

\* start() that, refusing, ends the session it finds: the allowance is
\* consumed and the session start cleared
start_expiring_session(t, clk) ==
    IF calculateRemainingSeconds(t, clk) = 0
    THEN [t |-> [t EXCEPT !.state = EXPIRED,
                          !.consumedTodaySeconds = t.totalAllowanceSeconds,
                          !.sessionStartTime = 0],
          ret |-> FALSE]
    ELSE IF t.state # RUNNING
    THEN [t |-> [t EXCEPT !.state = RUNNING, !.sessionStartTime = clk], ret |-> TRUE]
    ELSE [t |-> t, ret |-> TRUE]

start(t, clk) ==
    IF calculateRemainingSeconds(t, clk) = 0
    THEN [t |-> [t EXCEPT !.state = EXPIRED], ret |-> FALSE]
    ELSE IF t.state # RUNNING
    THEN [t |-> [t EXCEPT !.state = RUNNING, !.sessionStartTime = clk], ret |-> TRUE]
    ELSE [t |-> t, ret |-> TRUE]

\* startFromTimestamp() resuming the session without looking at the allowance
startFromTimestamp_resuming(t, sessionStartTime, clk) ==
    [t |-> [t EXCEPT !.state = RUNNING,
                     !.sessionStartTime =
                        IF sessionStartTime > clk THEN clk ELSE sessionStartTime],
     ret |-> TRUE]

startFromTimestamp(t, sessionStartTime, clk) ==
    LET ts == IF sessionStartTime > clk THEN clk ELSE sessionStartTime
        sessionElapsed == u32(clk - ts)
        totalConsumed == u32(t.consumedTodaySeconds + sessionElapsed)
    IN  IF totalConsumed >= t.totalAllowanceSeconds
        THEN [t |-> [t EXCEPT !.state = EXPIRED,
                              !.consumedTodaySeconds = t.totalAllowanceSeconds,
                              !.sessionStartTime = 0],
              ret |-> FALSE]
        ELSE [t |-> [t EXCEPT !.state = RUNNING, !.sessionStartTime = ts],
              ret |-> TRUE]

\* stop() charging the actual time only (the minimum forgotten)
stop_actual_only(t, minimumDuration, clk) ==
    IF t.state # RUNNING THEN [t |-> t, ret |-> 0]
    ELSE LET actualSeconds == calculateCurrentSessionSeconds(t, clk)
         IN  [t |-> [t EXCEPT !.consumedTodaySeconds = u32(@ + actualSeconds),
                              !.sessionStartTime = 0,
                              !.state = STOPPED],
              ret |-> actualSeconds]

stop(t, minimumDuration, clk) ==
    IF t.state # RUNNING THEN [t |-> t, ret |-> 0]
    ELSE LET actualSeconds == calculateCurrentSessionSeconds(t, clk)
             effectiveSeconds ==
                IF minimumDuration > 0 /\ actualSeconds < minimumDuration
                THEN minimumDuration ELSE actualSeconds
         IN  [t |-> [t EXCEPT !.consumedTodaySeconds = u32(@ + effectiveSeconds),
                              !.sessionStartTime = 0,
                              !.state = STOPPED],
              ret |-> actualSeconds]

abortSession(t) ==
    IF t.state = RUNNING
    THEN [t EXCEPT !.sessionStartTime = 0, !.state = STOPPED]
    ELSE t

\* update() that expires the session without charging it up to the allowance
update_without_commit(t, clk) ==
    IF t.state # RUNNING THEN t
    ELSE IF calculateRemainingSeconds(t, clk) = 0
    THEN [t EXCEPT !.sessionStartTime = 0, !.state = EXPIRED]
    ELSE t

update(t, clk) ==
    IF t.state # RUNNING THEN t
    ELSE IF calculateRemainingSeconds(t, clk) = 0
    THEN [t EXCEPT !.consumedTodaySeconds = t.totalAllowanceSeconds,
                   !.sessionStartTime = 0,
                   !.state = EXPIRED]
    ELSE t

setConsumedTodaySeconds(t, seconds) ==
    IF seconds >= t.totalAllowanceSeconds
    THEN [t EXCEPT !.consumedTodaySeconds = seconds,
                   !.state = EXPIRED, !.sessionStartTime = 0]
    ELSE IF t.state = EXPIRED
    THEN [t EXCEPT !.consumedTodaySeconds = seconds, !.state = STOPPED]
    ELSE [t EXCEPT !.consumedTodaySeconds = seconds]

setAllowance(t, allowanceSeconds) ==
    IF allowanceSeconds = 0 THEN t
    ELSE IF t.consumedTodaySeconds >= allowanceSeconds
    THEN [t EXCEPT !.totalAllowanceSeconds = allowanceSeconds,
                   !.state = EXPIRED, !.sessionStartTime = 0]
    ELSE IF t.state = EXPIRED
    THEN [t EXCEPT !.totalAllowanceSeconds = allowanceSeconds, !.state = STOPPED]
    ELSE [t EXCEPT !.totalAllowanceSeconds = allowanceSeconds]

addAllowance(t, additionalSeconds, clk) ==
    LET t1 == [t EXCEPT !.totalAllowanceSeconds = u32(@ + additionalSeconds)]
    IN  IF t1.state = EXPIRED /\ calculateRemainingSeconds(t1, clk) > 0
        THEN [t1 EXCEPT !.state = STOPPED]
        ELSE t1

(***************************************************************************)
(* The calendar (AppState::getCurrentWeekday), the snapshot                *)
(* (session_manager.h), the consumed-time record of PersistenceManager and *)
(* the screen-time fields of AppState.                                     *)
(***************************************************************************)
SECS_PER_DAY == 24 * 60 * 60

\* weekday "not set"
NO_WEEKDAY == 255

\* tm_wday of the clock reading: 0 is Sunday, and day 0 of the epoch a Thursday
getCurrentWeekday(clk) == ((clk \div SECS_PER_DAY) + 4) % 7

SessionSnapshot ==
    [consumedTodaySeconds |-> 0, sessionStartTime |-> 0, timerState |-> STOPPED,
     weekday |-> NO_WEEKDAY, isValid |-> FALSE]

\* the flash with nothing stored: every key reads as its default; writes
\* counts the writes made to the consumed-time record
NoRecord ==
    [consumedToday |-> 0, consumedWeekday |-> NO_WEEKDAY, writes |-> 0,
     lastWeekday |-> NO_WEEKDAY, dailyAllowance |-> 0, unlimitedAllowance |-> FALSE]

saveConsumedToday(n, consumedSeconds, weekday) ==
    IF weekday > 6 THEN n
    ELSE [n EXCEPT !.consumedToday = consumedSeconds,
                   !.consumedWeekday = weekday,
                   !.writes = @ + 1]

loadConsumedToday(n, currentWeekday) ==
    IF n.consumedWeekday # currentWeekday THEN 0 ELSE n.consumedToday

clearConsumedToday(n) ==
    [n EXCEPT !.consumedToday = 0, !.consumedWeekday = NO_WEEKDAY, !.writes = @ + 1]

saveLastActiveWeekday(n, weekday) ==
    IF weekday > 6 THEN n ELSE [n EXCEPT !.lastWeekday = weekday]

loadLastActiveWeekday(n) == n.lastWeekday

saveDailyAllowance(n, dailyAllowanceSeconds) ==
    [n EXCEPT !.dailyAllowance = dailyAllowanceSeconds]

loadDailyAllowance(n) == n.dailyAllowance

saveUnlimitedAllowance(n, hasUnlimitedAllowance) ==
    [n EXCEPT !.unlimitedAllowance = hasUnlimitedAllowance]

loadUnlimitedAllowance(n) == n.unlimitedAllowance

ScreenTimeState ==
    [dailyAllowanceSeconds |-> 0, lastActiveWeekday |-> NO_WEEKDAY,
     hasUnlimitedAllowance |-> FALSE]

hasWeekdayChanged(a, clk) ==
    IF a.lastActiveWeekday = NO_WEEKDAY THEN TRUE
    ELSE getCurrentWeekday(clk) # a.lastActiveWeekday

updateLastActiveWeekday(a, clk) ==
    [a EXCEPT !.lastActiveWeekday = getCurrentWeekday(clk)]

loadFromPersistence(a, n) ==
    [a EXCEPT !.lastActiveWeekday =
                  IF loadLastActiveWeekday(n) <= 6 THEN loadLastActiveWeekday(n) ELSE @,
              !.dailyAllowanceSeconds =
                  IF loadDailyAllowance(n) > 0 THEN loadDailyAllowance(n) ELSE @,
              !.hasUnlimitedAllowance = loadUnlimitedAllowance(n)]

saveWeekdayToPersistence(a, n) == saveLastActiveWeekday(n, a.lastActiveWeekday)

saveAllowanceToPersistence(a, n) ==
    saveUnlimitedAllowance(saveDailyAllowance(n, a.dailyAllowanceSeconds),
                           a.hasUnlimitedAllowance)

\* the RTC_DATA_ATTR variables as a power-on reset leaves them
RtcMemory ==
    [wasTimerRunning |-> FALSE, sessionStartTime |-> 0, consumedTodaySeconds |-> 0,
     hasValidState |-> FALSE, timerState |-> STOPPED, weekday |-> NO_WEEKDAY]

\* the power never lost
NoLoss == [lost |-> FALSE, consumedTodaySeconds |-> 0]

\* PollingManager as constructed: no poll, no callback (0 is nullptr)
PollingManager ==
    [type |-> "NONE", status |-> "IDLE", callback |-> 0,
     startTimeMs |-> 0, lastPollMs |-> 0]

\* NetworkManager after begin(): not in polling mode, WiFi not connected
NetworkManager ==
    [pollingMode |-> FALSE, connected |-> FALSE, lastActivityMs |-> 0]

\* no poll started yet.  started counts the polls started, each with a
\* callback of its own (the poll's number); invoked lists the callbacks
\* invoked, with their results; cancelled holds the callbacks dropped by
\* stopPolling()
Polling ==
    [pm |-> PollingManager, network |-> NetworkManager, millis |-> 1,
     started |-> 0, invoked |-> << >>, cancelled |-> {}]

\* ParentScreen as constructed and after onEnter(): locked, at the start of
\* the sequence, the menu hidden; presses lists the A (0) and B (1) presses
ParentScreen ==
    [isUnlocked |-> FALSE, sequenceIndex |-> 0, menuVisible |-> FALSE,
     presses |-> << >>]

\* the firmware not started: no dialog, no wake-up timer armed
NoUi ==
    [pc |-> "off", dialog |-> "none", selectedButton |-> 0, wakeAt |-> 0,
     wakeupCause |-> "undefined", wokeFromSleep |-> FALSE,
     restoreTimerRunning |-> FALSE]

(***************************************************************************)
(* The history variable: the call made last.  seq counts the calls, so    *)
(* that a step is a call exactly when h changes.                          *)
(***************************************************************************)
Call(op, arg, ret) ==
    [seq |-> h.seq + 1, op |-> op, arg |-> arg, ret |-> ret, prev |-> h.op]

NoCall == [seq |-> 0, op |-> "none", arg |-> 0, ret |-> 0, prev |-> "none"]

Bool(b) == IF b THEN 1 ELSE 0

NoLedger == [total |-> 0]

\* the ledger after a step from timer t to timer t2 at clock clk: a session
\* that was running and no longer is has ended, having lasted from its start
\* to clk on the wall clock
Account(t, t2, clk) ==
    IF t.state = RUNNING /\ t2.state # RUNNING
    THEN [total |-> ledger.total + (clk - t.sessionStartTime)]
    ELSE ledger

(***************************************************************************)
(* SpecTimer: any sequence of ScreenTimer calls, the clock advancing       *)
(* between them.                                                           *)
(***************************************************************************)
AllowanceValues == {0, 3, UINT32_MAX \div 2}
ConsumedValues == {0, 2, UINT32_MAX}
AdditionalValues == {2, UINT32_MAX}
MinimumValues == {0, 2}
\* session start timestamps are clock readings: the past, and one in the future
TimestampValues == {T0, T0 + 1, MaxNow + 1}

InitTimer ==
    /\ timer = ScreenTimer
    /\ now = T0
    /\ h = NoCall
    /\ ledger = NoLedger
    /\ snapshot = SessionSnapshot
    /\ nvs = NoRecord
    /\ pushed = << >>
    /\ app = ScreenTimeState
    /\ rtc = RtcMemory
    /\ ui = NoUi
    /\ atSleep = ScreenTimer
    /\ sleptAt = 0
    /\ atLoss = NoLoss
    /\ polling = Polling
    /\ parent = ParentScreen

Tick ==
    /\ \E d \in 1 .. MaxStep :
          /\ (now % SECS_PER_DAY) + d <= MaxNow
          /\ now' = now + d
    /\ UNCHANGED <<timer, h, ledger, sessionVars, appVars>>

CallBegin ==
    /\ h.seq < MaxCalls
    /\ \E a \in AllowanceValues, c \in ConsumedValues :
          /\ timer' = begin(timer, a, c)
          /\ h' = Call("begin", a, 0)
    /\ UNCHANGED <<now, ledger, sessionVars, appVars>>

CallReset ==
    /\ h.seq < MaxCalls
    /\ \E a \in AllowanceValues :
          /\ timer' = reset(timer, a)
          /\ h' = Call("reset", a, 0)
    /\ UNCHANGED <<now, ledger, sessionVars, appVars>>

CallStart ==
    /\ h.seq < MaxCalls
    /\ timer' = start(timer, now).t
    /\ h' = Call("start", 0, Bool(start(timer, now).ret))
    /\ UNCHANGED <<now, ledger, sessionVars, appVars>>

CallStartFromTimestamp ==
    /\ h.seq < MaxCalls
    /\ \E ts \in TimestampValues :
          /\ timer' = startFromTimestamp(timer, ts, now).t
          /\ h' = Call("startFromTimestamp", ts,
                       Bool(startFromTimestamp(timer, ts, now).ret))
    /\ UNCHANGED <<now, ledger, sessionVars, appVars>>

CallStop ==
    /\ h.seq < MaxCalls
    /\ \E m \in MinimumValues :
          /\ timer' = stop(timer, m, now).t
          /\ h' = Call("stop", m, stop(timer, m, now).ret)
    /\ UNCHANGED <<now, ledger, sessionVars, appVars>>

CallAbortSession ==
    /\ h.seq < MaxCalls
    /\ timer' = abortSession(timer)
    /\ h' = Call("abortSession", 0, 0)
    /\ UNCHANGED <<now, ledger, sessionVars, appVars>>

CallUpdate ==
    /\ h.seq < MaxCalls
    /\ timer' = update(timer, now)
    /\ h' = Call("update", 0, 0)
    /\ UNCHANGED <<now, ledger, sessionVars, appVars>>

CallSetConsumedTodaySeconds ==
    /\ h.seq < MaxCalls
    /\ \E c \in ConsumedValues :
          /\ timer' = setConsumedTodaySeconds(timer, c)
          /\ h' = Call("setConsumedTodaySeconds", c, 0)
    /\ UNCHANGED <<now, ledger, sessionVars, appVars>>

CallSetAllowance ==
    /\ h.seq < MaxCalls
    /\ \E a \in AllowanceValues :
          /\ timer' = setAllowance(timer, a)
          /\ h' = Call("setAllowance", a, 0)
    /\ UNCHANGED <<now, ledger, sessionVars, appVars>>

CallAddAllowance ==
    /\ h.seq < MaxCalls
    /\ \E d \in AdditionalValues :
          /\ timer' = addAllowance(timer, d, now)
          /\ h' = Call("addAllowance", d, 0)
    /\ UNCHANGED <<now, ledger, sessionVars, appVars>>

NextTimer ==
    \/ Tick
    \/ CallBegin
    \/ CallReset
    \/ CallStart
    \/ CallStartFromTimestamp
    \/ CallStop
    \/ CallAbortSession
    \/ CallUpdate
    \/ CallSetConsumedTodaySeconds
    \/ CallSetAllowance
    \/ CallAddAllowance

SpecTimer == InitTimer /\ [][NextTimer]_vars

(***************************************************************************)
(* SpecConservation: one day with a fixed allowance; only start(),         *)
(* update() and stop(0) are called, at any moments.  The ledger keeps the  *)
(* wall-clock duration of the sessions that have ended.                    *)
(***************************************************************************)
DayAllowanceValues == {3, 4}

InitConservation ==
    /\ \E a \in DayAllowanceValues : timer = begin(ScreenTimer, a, 0)
    /\ now = T0
    /\ h = NoCall
    /\ ledger = NoLedger
    /\ snapshot = SessionSnapshot
    /\ nvs = NoRecord
    /\ pushed = << >>
    /\ app = ScreenTimeState
    /\ rtc = RtcMemory
    /\ ui = NoUi
    /\ atSleep = ScreenTimer
    /\ sleptAt = 0
    /\ atLoss = NoLoss
    /\ polling = Polling
    /\ parent = ParentScreen

LedgerStart ==
    /\ timer' = start(timer, now).t
    /\ ledger' = Account(timer, timer', now)
    /\ UNCHANGED <<now, h, sessionVars, appVars>>

LedgerUpdate ==
    /\ timer' = update(timer, now)
    /\ ledger' = Account(timer, timer', now)
    /\ UNCHANGED <<now, h, sessionVars, appVars>>

LedgerStop ==
    /\ timer' = stop(timer, 0, now).t
    /\ ledger' = Account(timer, timer', now)
    /\ UNCHANGED <<now, h, sessionVars, appVars>>

NextConservation ==
    \/ Tick
    \/ LedgerStart
    \/ LedgerUpdate
    \/ LedgerStop

SpecConservation == InitConservation /\ [][NextConservation]_vars

(***************************************************************************)
(* SessionManager (session_manager.cpp).  The API client is set and a      *)
(* child is selected, as they are once setup() has run.                    *)
(***************************************************************************)
\* startSession() without the check of the unlimited flag
startSession_ignoring_unlimited(t, a, clk) == start(t, clk)

startSession(t, a, clk) ==
    IF a.hasUnlimitedAllowance THEN [t |-> t, ret |-> FALSE]
    ELSE start(t, clk)

persistToNvs(t, n, clk) ==
    saveConsumedToday(n, getCompletedSessionsSeconds(t), getCurrentWeekday(clk))

\* pushSessionToApi() that sends the session a second time
pushSessionToApi_retrying(p, durationSeconds, startTime) ==
    IF startTime = 0 THEN p
    ELSE LET session == [durationMinutes |-> u32(durationSeconds + 59) \div 60,
                         startTime |-> startTime]
         IN  Append(Append(p, session), session)

pushSessionToApi(p, durationSeconds, startTime) ==
    IF startTime = 0 THEN p
    ELSE Append(p, [durationMinutes |-> u32(durationSeconds + 59) \div 60,
                    startTime |-> startTime])

\* stopSession() pushing the actual duration, the minimum not enforced
stopSession_pushing_actual(t, n, p, minimumDuration, clk) ==
    IF ~isRunning(t)
    THEN [t |-> t, nvs |-> n, pushed |-> p, ret |-> 0, order |-> << >>]
    ELSE LET sessionStartTime == getSessionStartTime(t)
             stopped == stop(t, minimumDuration, clk)
         IN  [t |-> stopped.t,
              nvs |-> persistToNvs(stopped.t, n, clk),
              pushed |-> pushSessionToApi(p, stopped.ret, sessionStartTime),
              ret |-> stopped.ret,
              order |-> <<"persistToNvs", "pushSessionToApi">>]

\* order: the calls stopSession() makes after the stop, in their order
stopSession(t, n, p, minimumDuration, clk) ==
    IF ~isRunning(t)
    THEN [t |-> t, nvs |-> n, pushed |-> p, ret |-> 0, order |-> << >>]
    ELSE LET sessionStartTime == getSessionStartTime(t)
             stopped == stop(t, minimumDuration, clk)
             actualDuration == stopped.ret
             effectiveDuration ==
                IF minimumDuration > 0 /\ actualDuration < minimumDuration
                THEN minimumDuration ELSE actualDuration
         IN  [t |-> stopped.t,
              nvs |-> persistToNvs(stopped.t, n, clk),
              pushed |-> pushSessionToApi(p, effectiveDuration, sessionStartTime),
              ret |-> actualDuration,
              order |-> <<"persistToNvs", "pushSessionToApi">>]

\* SessionManager::abortSession() with the session's time committed and
\* recorded as stopSession(0) does
SessionManager_abortSession_charging(t, n, p, clk) ==
    [t |-> stopSession(t, n, p, 0, clk).t,
     nvs |-> stopSession(t, n, p, 0, clk).nvs,
     pushed |-> stopSession(t, n, p, 0, clk).pushed]

SessionManager_abortSession(t, n, p, clk) ==
    IF ~isRunning(t) THEN [t |-> t, nvs |-> n, pushed |-> p]
    ELSE [t |-> abortSession(t), nvs |-> n, pushed |-> p]

\* onSessionExpired() that pushes the session but writes nothing to flash
onSessionExpired_without_persist(t, n, p, sessionDuration, sessionStartTime, clk) ==
    [nvs |-> n,
     pushed |-> pushSessionToApi(p, sessionDuration, sessionStartTime)]

onSessionExpired(t, n, p, sessionDuration, sessionStartTime, clk) ==
    [nvs |-> persistToNvs(t, n, clk),
     pushed |-> pushSessionToApi(p, sessionDuration, sessionStartTime)]

\* createSnapshot() saving the total consumed time, the running session's
\* included, instead of the completed sessions' time
createSnapshot_total(t, clk) ==
    [consumedTodaySeconds |-> getTotalConsumedSeconds(t, clk),
     sessionStartTime |-> getSessionStartTime(t),
     timerState |-> t.state,
     weekday |-> getCurrentWeekday(clk),
     isValid |-> TRUE]

createSnapshot(t, clk) ==
    [consumedTodaySeconds |-> getCompletedSessionsSeconds(t),
     sessionStartTime |-> getSessionStartTime(t),
     timerState |-> t.state,
     weekday |-> getCurrentWeekday(clk),
     isValid |-> TRUE]

\* restoreFromSnapshot() without the check of the weekday
restoreFromSnapshot_any_day(t, s, currentWeekday, clk) ==
    IF ~s.isValid THEN [t |-> t, ret |-> FALSE]
    ELSE LET t1 == setConsumedTodaySeconds(t, s.consumedTodaySeconds)
         IN  IF s.timerState = RUNNING /\ s.sessionStartTime > 0
             THEN startFromTimestamp(t1, s.sessionStartTime, clk)
             ELSE [t |-> t1, ret |-> TRUE]

\* restoreFromSnapshot() adding the snapshot's completed time to the timer's
\* instead of setting it
restoreFromSnapshot_accumulating(t, s, currentWeekday, clk) ==
    IF ~s.isValid THEN [t |-> t, ret |-> FALSE]
    ELSE IF s.weekday # NO_WEEKDAY /\ s.weekday # currentWeekday
    THEN [t |-> t, ret |-> FALSE]
    ELSE LET t1 == setConsumedTodaySeconds(t,
                       u32(t.consumedTodaySeconds + s.consumedTodaySeconds))
         IN  IF s.timerState = RUNNING /\ s.sessionStartTime > 0
             THEN startFromTimestamp(t1, s.sessionStartTime, clk)
             ELSE [t |-> t1, ret |-> TRUE]

restoreFromSnapshot(t, s, currentWeekday, clk) ==
    IF ~s.isValid THEN [t |-> t, ret |-> FALSE]
    ELSE IF s.weekday # NO_WEEKDAY /\ s.weekday # currentWeekday
    THEN [t |-> t, ret |-> FALSE]
    ELSE LET t1 == setConsumedTodaySeconds(t, s.consumedTodaySeconds)
         IN  IF s.timerState = RUNNING /\ s.sessionStartTime > 0
             THEN startFromTimestamp(t1, s.sessionStartTime, clk)
             ELSE [t |-> t1, ret |-> TRUE]

loadFromNvs(n, currentWeekday) == loadConsumedToday(n, currentWeekday)

clearNvsConsumedTime(n) == clearConsumedToday(n)

(***************************************************************************)
(* SpecSession: any sequence of SessionManager calls on a timer that has   *)
(* an allowance, the clock advancing between them (by seconds, and to the  *)
(* next day); the timer's update() tick and a restart of the timer         *)
(* (begin) may come at any moment.                                         *)
(***************************************************************************)
SessionAllowanceValues == {3, UINT32_MAX \div 2}

InitSession ==
    /\ \E a \in SessionAllowanceValues : timer = begin(ScreenTimer, a, 0)
    /\ now = T0
    /\ h = NoCall
    /\ ledger = NoLedger
    /\ snapshot = SessionSnapshot
    /\ nvs = NoRecord
    /\ pushed = << >>
    /\ app = ScreenTimeState
    /\ rtc = RtcMemory
    /\ ui = NoUi
    /\ atSleep = ScreenTimer
    /\ sleptAt = 0
    /\ atLoss = NoLoss
    /\ polling = Polling
    /\ parent = ParentScreen

NextDay ==
    /\ now \div SECS_PER_DAY < MaxDays
    /\ ui.pc \notin {"setup", "entering"}
    /\ ui.pc = "asleep" /\ ui.wakeAt > 0 => now + SECS_PER_DAY <= ui.wakeAt
    /\ now' = now + SECS_PER_DAY
    /\ UNCHANGED <<timer, h, ledger, sessionVars, appVars>>

\* a week goes by
NextWeek ==
    /\ now \div SECS_PER_DAY < MaxDays
    /\ ui.pc \notin {"setup", "entering"}
    /\ ui.pc = "asleep" /\ ui.wakeAt > 0 => now + 7 * SECS_PER_DAY <= ui.wakeAt
    /\ now' = now + 7 * SECS_PER_DAY
    /\ UNCHANGED <<timer, h, ledger, sessionVars, appVars>>

Restart ==
    /\ h.seq < MaxCalls
    /\ \E a \in SessionAllowanceValues :
          /\ timer' = begin(timer, a, 0)
          /\ h' = Call("begin", a, 0)
    /\ UNCHANGED <<now, ledger, sessionVars, appVars>>

StartSession ==
    /\ h.seq < MaxCalls
    /\ timer' = startSession(timer, app, now).t
    /\ h' = Call("startSession", 0, Bool(startSession(timer, app, now).ret))
    /\ UNCHANGED <<now, ledger, sessionVars, appVars>>

StopSession ==
    /\ h.seq < MaxCalls
    /\ \E m \in MinimumValues :
          LET r == stopSession(timer, nvs, pushed, m, now)
          IN  /\ timer' = r.t
              /\ nvs' = r.nvs
              /\ pushed' = r.pushed
              /\ h' = Call("stopSession", m, r.ret)
    /\ UNCHANGED <<now, ledger, snapshot, appVars>>

AbortSession ==
    /\ h.seq < MaxCalls
    /\ LET r == SessionManager_abortSession(timer, nvs, pushed, now)
       IN  /\ timer' = r.t
           /\ nvs' = r.nvs
           /\ pushed' = r.pushed
    /\ h' = Call("abortSession", 0, 0)
    /\ UNCHANGED <<now, ledger, snapshot, appVars>>

\* the ledger is closed at the snapshot: it holds the time of the sessions
\* that had ended when the snapshot was made
CreateSnapshot ==
    /\ h.seq < MaxCalls
    /\ snapshot' = createSnapshot(timer, now)
    /\ ledger' = [total |-> timer.consumedTodaySeconds]
    /\ h' = Call("createSnapshot", 0, 0)
    /\ UNCHANGED <<timer, now, nvs, pushed, appVars>>

RestoreFromSnapshot ==
    /\ h.seq < MaxCalls
    /\ LET r == restoreFromSnapshot(timer, snapshot, getCurrentWeekday(now), now)
       IN  /\ timer' = r.t
           /\ h' = Call("restoreFromSnapshot", 0, Bool(r.ret))
    /\ UNCHANGED <<now, ledger, sessionVars, appVars>>

NextSession ==
    \/ Tick
    \/ NextDay
    \/ Restart
    \/ CallUpdate
    \/ StartSession
    \/ StopSession
    \/ AbortSession
    \/ CreateSnapshot
    \/ RestoreFromSnapshot

SpecSession == InitSession /\ [][NextSession]_vars

(***************************************************************************)
(* SpecRestore: restoreFromSnapshot() handed any SessionSnapshot a caller  *)
(* can construct, not only those of createSnapshot(): any consumed time,   *)
(* start, state and validity, the weekday today's, tomorrow's or not set.  *)
(***************************************************************************)
SnapshotValues ==
    [consumedTodaySeconds : {0, 2, UINT32_MAX},
     sessionStartTime : {0, T0, T0 + 1},
     timerState : TimerStates,
     weekday : {getCurrentWeekday(T0), getCurrentWeekday(T0 + SECS_PER_DAY),
                NO_WEEKDAY},
     isValid : BOOLEAN]

\* one snapshot in a behaviour
ReceiveSnapshot ==
    /\ h.seq < MaxCalls
    /\ snapshot = SessionSnapshot
    /\ snapshot' \in SnapshotValues
    /\ h' = Call("SessionSnapshot", 0, 0)
    /\ UNCHANGED <<timer, now, ledger, nvs, pushed, appVars>>

NextRestore ==
    \/ Tick
    \/ NextDay
    \/ StartSession
    \/ ReceiveSnapshot
    \/ RestoreFromSnapshot

SpecRestore == InitSession /\ [][NextRestore]_vars

(***************************************************************************)
(* SpecStart: start() and startSession() on timers of any allowance and    *)
(* consumed time, stopped, running or expired, the unlimited flag of       *)
(* AppState set or not.                                                    *)
(***************************************************************************)
InitStart ==
    /\ \E a \in AllowanceValues, c \in ConsumedValues :
          timer = begin(ScreenTimer, a, c)
    /\ now = T0
    /\ h = NoCall
    /\ ledger = NoLedger
    /\ snapshot = SessionSnapshot
    /\ nvs = NoRecord
    /\ pushed = << >>
    /\ \E u \in BOOLEAN : app = [ScreenTimeState EXCEPT !.hasUnlimitedAllowance = u]
    /\ rtc = RtcMemory
    /\ ui = NoUi
    /\ atSleep = ScreenTimer
    /\ sleptAt = 0
    /\ atLoss = NoLoss
    /\ polling = Polling
    /\ parent = ParentScreen

NextStart ==
    \/ Tick
    \/ CallStart
    \/ StartSession
    \/ CallUpdate
    \/ CallStop
    \/ CallSetAllowance

SpecStart == InitStart /\ [][NextStart]_vars

(***************************************************************************)
(* SpecNvs: the consumed-time record in flash, written by persistToNvs()   *)
(* and read by loadFromNvs() seconds, a day or a week later.               *)
(* The argument of a call in h is the clock at the call.                   *)
(***************************************************************************)
InitNvs ==
    /\ \E a \in SessionAllowanceValues, c \in {2, 3} :
          timer = begin(ScreenTimer, a, c)
    /\ now = T0
    /\ h = NoCall
    /\ ledger = NoLedger
    /\ snapshot = SessionSnapshot
    /\ nvs = NoRecord
    /\ pushed = << >>
    /\ app = ScreenTimeState
    /\ rtc = RtcMemory
    /\ ui = NoUi
    /\ atSleep = ScreenTimer
    /\ sleptAt = 0
    /\ atLoss = NoLoss
    /\ polling = Polling
    /\ parent = ParentScreen

PersistToNvs ==
    /\ h.seq < MaxCalls
    /\ nvs' = persistToNvs(timer, nvs, now)
    /\ h' = Call("persistToNvs", now, 0)
    /\ UNCHANGED <<timer, now, ledger, snapshot, pushed, appVars>>

LoadFromNvs ==
    /\ h.seq < MaxCalls
    /\ h' = Call("loadFromNvs", now, loadFromNvs(nvs, getCurrentWeekday(now)))
    /\ UNCHANGED <<timer, now, ledger, sessionVars, appVars>>

ClearNvsConsumedTime ==
    /\ h.seq < MaxCalls
    /\ nvs' = clearNvsConsumedTime(nvs)
    /\ h' = Call("clearNvsConsumedTime", now, 0)
    /\ UNCHANGED <<timer, now, ledger, snapshot, pushed, appVars>>

NextNvs ==
    \/ Tick
    \/ NextDay
    \/ NextWeek
    \/ PersistToNvs
    \/ LoadFromNvs
    \/ ClearNvsConsumedTime

SpecNvs == InitNvs /\ [][NextNvs]_vars

(***************************************************************************)
(* The main screen (main_screen.cpp), the dialog routing of ScreenManager  *)
(* and the deep-sleep save and restore of main.cpp.  These operators work  *)
(* on the firmware's state as one record w: the timer, the flash, the      *)
(* pushes, AppState, the RTC memory and the ui.  A user is logged in and a *)
(* child is selected.                                                      *)
(***************************************************************************)
MINIMUM_SESSION_ENABLED == TRUE
MINIMUM_SESSION_DURATION_SECONDS == 5 * 60
MISTAKEN_SESSION_DURATION_SECS == 5
SLEEP_MIN_REMAINING_SECS == 10 * 60
SLEEP_WAKE_BEFORE_EXPIRY_SECS == 10 * 60

BUTTON_1 == "BUTTON_1"
BUTTON_2 == "BUTTON_2"

\* Dialog::showConfirm preselects the second button, Dialog::showInfo has one
showConfirmDialog(w, name) ==
    [w EXCEPT !.ui.dialog = name, !.ui.selectedButton = 1]

showInfoDialog(w, name) ==
    [w EXCEPT !.ui.dialog = name, !.ui.selectedButton = 0]

\* AllowanceResult of ApiClient::getTodayAllowance
AllowanceFailed ==
    [success |-> FALSE, dailyAllowanceMinutes |-> 0, hasUnlimitedAllowance |-> FALSE]

AllowanceMinutes(m) ==
    [success |-> TRUE, dailyAllowanceMinutes |-> m, hasUnlimitedAllowance |-> FALSE]

AllowanceUnlimited ==
    [success |-> TRUE, dailyAllowanceMinutes |-> 0, hasUnlimitedAllowance |-> TRUE]

\* the world after the fetch, and whether it succeeded
fetchAllowanceFromApi(w, result) ==
    IF ~result.success THEN [w |-> w, ret |-> FALSE]
    ELSE LET allowanceSeconds == u32(result.dailyAllowanceMinutes * 60)
             w1 == [w EXCEPT !.app.hasUnlimitedAllowance = result.hasUnlimitedAllowance]
             w2 == IF result.hasUnlimitedAllowance
                   THEN [w1 EXCEPT !.timer = setAllowance(@, UINT32_MAX \div 2),
                                   !.app.dailyAllowanceSeconds = 0]
                   ELSE IF allowanceSeconds > 0
                   THEN [w1 EXCEPT !.timer = setAllowance(@, allowanceSeconds),
                                   !.app.dailyAllowanceSeconds = allowanceSeconds]
                   ELSE w1
         IN  [w |-> [w2 EXCEPT !.nvs = saveAllowanceToPersistence(w2.app, @)],
              ret |-> TRUE]

showAllowanceFetchFailedDialog(w) == showInfoDialog(w, "fetchFailed")

onAllowanceFetchFailedDialogResult(w, result) ==
    IF fetchAllowanceFromApi(w, result).ret
    THEN fetchAllowanceFromApi(w, result).w
    ELSE showAllowanceFetchFailedDialog(w)

onEnter(w, result, clk) ==
    IF hasWeekdayChanged(w.app, clk)
    THEN LET w1 == [w EXCEPT !.nvs = clearNvsConsumedTime(@)]
             f == fetchAllowanceFromApi(w1, result)
             w2 == [f.w EXCEPT !.app = updateLastActiveWeekday(@, clk)]
             w3 == [w2 EXCEPT !.nvs = saveWeekdayToPersistence(w2.app, @)]
         IN  IF ~f.ret THEN showAllowanceFetchFailedDialog(w3) ELSE w3
    ELSE LET consumedSeconds == loadFromNvs(w.nvs, getCurrentWeekday(clk))
             w1 == IF consumedSeconds > 0 /\ ~isRunning(w.timer)
                   THEN [w EXCEPT !.timer = setConsumedTodaySeconds(@, consumedSeconds)]
                   ELSE w
             cachedAllowance == w1.app.dailyAllowanceSeconds
         IN  IF w1.app.hasUnlimitedAllowance \/ cachedAllowance = 0
             THEN LET f == fetchAllowanceFromApi(w1, result)
                  IN  IF ~f.ret THEN showAllowanceFetchFailedDialog(f.w) ELSE f.w
             ELSE IF ~isRunning(w1.timer)
             THEN [w1 EXCEPT !.timer = setAllowance(@, cachedAllowance)]
             ELSE w1

showTimeUpDialog(w) ==
    IF w.app.hasUnlimitedAllowance THEN w
    ELSE showConfirmDialog(w, "timeUp")

startTimer(w, clk) ==
    IF isExpired(w.timer) THEN showTimeUpDialog(w)
    ELSE [w EXCEPT !.timer = startSession(@, w.app, clk).t]

stopTimer(w, minimumDuration, clk) ==
    LET r == stopSession(w.timer, w.nvs, w.pushed, minimumDuration, clk)
    IN  [w EXCEPT !.timer = r.t, !.nvs = r.nvs, !.pushed = r.pushed]

\* toggleTimer() stopping any running session at once with stopSession(0)
toggleTimer_always_stopping(w, clk) ==
    IF isRunning(w.timer) THEN stopTimer(w, 0, clk) ELSE startTimer(w, clk)

toggleTimer(w, clk) ==
    IF isRunning(w.timer)
    THEN LET currentSessionSecs == calculateCurrentSessionSeconds(w.timer, clk)
         IN  IF currentSessionSecs < MISTAKEN_SESSION_DURATION_SECS
             THEN LET r == SessionManager_abortSession(w.timer, w.nvs, w.pushed, clk)
                  IN  [w EXCEPT !.timer = r.t, !.nvs = r.nvs, !.pushed = r.pushed]
             ELSE IF MINIMUM_SESSION_ENABLED
                     /\ currentSessionSecs < MINIMUM_SESSION_DURATION_SECONDS
             THEN showConfirmDialog(w, "minimumSession")
             ELSE stopTimer(w, 0, clk)
    ELSE startTimer(w, clk)

\* the confirmation stopping the session with the elapsed time charged, the
\* minimum not applied
onMinimumSessionDialogResult_charging_actual(w, result, clk) ==
    IF result = BUTTON_2 THEN stopTimer(w, 0, clk) ELSE w

onMinimumSessionDialogResult(w, result, clk) ==
    IF result = BUTTON_2
    THEN stopTimer(w, MINIMUM_SESSION_DURATION_SECONDS, clk)
    ELSE w

requestMoreTime(w) ==
    IF w.app.hasUnlimitedAllowance THEN showInfoDialog(w, "unlimitedTime")
    ELSE w

onTimeUpDialogResult(w, result) ==
    IF result = BUTTON_2 THEN requestMoreTime(w) ELSE w

onTimerExpired(w, sessionDurationSeconds, sessionStartTime, clk) ==
    LET r == onSessionExpired(w.timer, w.nvs, w.pushed,
                              sessionDurationSeconds, sessionStartTime, clk)
    IN  [w EXCEPT !.nvs = r.nvs, !.pushed = r.pushed]

MainScreen_update(w, clk) ==
    IF isRunning(w.timer)
    THEN LET preUpdateSessionDuration == calculateCurrentSessionSeconds(w.timer, clk)
             preUpdateSessionStartTime == getSessionStartTime(w.timer)
             w1 == [w EXCEPT !.timer = update(@, clk)]
         IN  IF isExpired(w1.timer)
             THEN onTimerExpired(w1, preUpdateSessionDuration,
                                 preUpdateSessionStartTime, clk)
             ELSE w1
    ELSE w

\* ScreenManager::update: the screen is not updated while a dialog is shown
ScreenManager_update(w, clk) ==
    IF w.ui.dialog # "none" THEN w ELSE MainScreen_update(w, clk)

\* ScreenManager::handleButtonA: the dialog first (it is dismissed, then its
\* callback runs), else the main screen's button A, which toggles the timer
handleButtonA(w, result, clk) ==
    IF w.ui.dialog # "none"
    THEN LET pressed == IF w.ui.selectedButton = 0 THEN BUTTON_1 ELSE BUTTON_2
             w1 == [w EXCEPT !.ui.dialog = "none"]
         IN  IF w.ui.dialog = "minimumSession"
             THEN onMinimumSessionDialogResult(w1, pressed, clk)
             ELSE IF w.ui.dialog = "timeUp"
             THEN onTimeUpDialogResult(w1, pressed)
             ELSE IF w.ui.dialog = "fetchFailed"
             THEN onAllowanceFetchFailedDialogResult(w1, result)
             ELSE w1
    ELSE toggleTimer(w, clk)

\* Dialog::handleButtonB: the selection moves to the next of the two buttons
\* of a confirm dialog
handleButtonB(w) ==
    IF w.ui.dialog \in {"minimumSession", "timeUp"}
    THEN [w EXCEPT !.ui.selectedButton = (@ + 1) % 2]
    ELSE w

doRefreshSync(w, timeSuccess, result, clk) ==
    LET f == fetchAllowanceFromApi(w, result)
    IN  IF timeSuccess \/ f.ret
        THEN LET w1 == [f.w EXCEPT !.app = updateLastActiveWeekday(@, clk)]
             IN  [w1 EXCEPT !.nvs = saveWeekdayToPersistence(w1.app, @)]
        ELSE f.w

\* checkAndRestoreFromSleep() of main.cpp
checkAndRestoreFromSleep(w, clk) ==
    IF w.ui.wakeupCause = "undefined" THEN [w EXCEPT !.ui.wokeFromSleep = FALSE]
    ELSE IF ~w.rtc.hasValidState THEN [w EXCEPT !.ui.wokeFromSleep = FALSE]
    ELSE LET currentWeekday == getCurrentWeekday(clk)
             dayChanged == w.rtc.weekday # NO_WEEKDAY /\ w.rtc.weekday # currentWeekday
             r1 == IF dayChanged
                   THEN [w.rtc EXCEPT !.consumedTodaySeconds = 0,
                                      !.sessionStartTime = 0,
                                      !.wasTimerRunning = FALSE,
                                      !.timerState = STOPPED]
                   ELSE w.rtc
             t1 == setConsumedTodaySeconds(w.timer, r1.consumedTodaySeconds)
             restored == startFromTimestamp(t1, r1.sessionStartTime, clk)
             wasRunning == r1.timerState = RUNNING /\ r1.wasTimerRunning /\ ~dayChanged
         IN  [w EXCEPT !.timer = IF wasRunning THEN restored.t ELSE t1,
                       !.rtc = [r1 EXCEPT !.hasValidState = FALSE],
                       !.ui.restoreTimerRunning = wasRunning /\ restored.ret,
                       !.ui.wokeFromSleep = TRUE]

\* the seconds after which the wake-up timer fires, 0 if it is not armed
sleepDurationSecs(wasTimerRunning, remainingSeconds) ==
    IF wasTimerRunning /\ remainingSeconds > SLEEP_WAKE_BEFORE_EXPIRY_SECS
    THEN LET d == remainingSeconds - SLEEP_WAKE_BEFORE_EXPIRY_SECS
         IN  IF d < 10 THEN 10
             ELSE IF d > 24 * 60 * 60 THEN 24 * 60 * 60
             ELSE d
    ELSE 0

\* tryGoToSleep() of main.cpp, the session manager in place: the world after
\* it, asleep unless the sleep was refused
tryGoToSleep(w, clk) ==
    LET remainingSeconds == calculateRemainingSeconds(w.timer, clk)
        timerIsRunning == isRunning(w.timer)
        snap == createSnapshot(w.timer, clk)
        d == sleepDurationSecs(snap.timerState = RUNNING, remainingSeconds)
    IN  IF timerIsRunning /\ remainingSeconds < SLEEP_MIN_REMAINING_SECS THEN w
        ELSE [w EXCEPT !.rtc = [wasTimerRunning |-> snap.timerState = RUNNING,
                                sessionStartTime |-> snap.sessionStartTime,
                                consumedTodaySeconds |-> snap.consumedTodaySeconds,
                                hasValidState |-> TRUE,
                                timerState |-> snap.timerState,
                                weekday |-> getCurrentWeekday(clk)],
                      !.nvs = persistToNvs(w.timer, @, clk),
                      !.ui.pc = "asleep",
                      !.ui.dialog = "none",
                      !.ui.wakeAt = IF d > 0 THEN clk + d ELSE 0]

\* setup() of main.cpp up to the restore from sleep: the timer begun with no
\* allowance, AppState loaded, the cached allowance set, the RTC state restored
setupRestore(w, clk) ==
    LET a == loadFromPersistence(ScreenTimeState, w.nvs)
        t0 == begin(w.timer, 0, 0)
        cachedAllowance == a.dailyAllowanceSeconds
        t1 == IF cachedAllowance > 0 THEN setAllowance(t0, cachedAllowance) ELSE t0
    IN  checkAndRestoreFromSleep([w EXCEPT !.timer = t1, !.app = a], clk)

\* the rest of setup(): the restored session handed to the main screen, the
\* main screen entered, and the dialog of a boot that found the time used up
\* or could not set the clock
setupEnter(w, result, timeSyncSuccess, clk) ==
    LET w1 == IF w.ui.restoreTimerRunning THEN startTimer(w, clk) ELSE w
        w2 == onEnter(w1, result, clk)
    IN  IF w.ui.wokeFromSleep
        THEN IF isExpired(w2.timer) THEN showTimeUpDialog(w2) ELSE w2
        ELSE IF ~timeSyncSuccess THEN showInfoDialog(w2, "timeSyncFailed") ELSE w2

(***************************************************************************)
(* SpecApp: the device.  It boots (setup, in two steps: up to the restore *)
(* from sleep, then the entry of the main screen), then loops: button A    *)
(* and button B, the screen update, the menu's refresh and the sleep, by   *)
(* the menu or by inactivity.  Asleep, it wakes by button A or by the      *)
(* wake-up timer.  Time passes in the loop and in the sleep; setup() is    *)
(* taken to run within one second.                                         *)
(***************************************************************************)
\* events handled in one behaviour
MaxEvents == 7

\* the moments of the day, in seconds, at which the device is looked at: they
\* lie 4, 296, 300, 596, 600, 896 and 900 seconds apart
TimesOfDay == {T0 + 4, T0 + 5 * 60, T0 + 10 * 60, T0 + 15 * 60}

FetchResults == {AllowanceFailed, AllowanceMinutes(20), AllowanceUnlimited}

\* the flash at power-up: never written, or left by an earlier run today with
\* an allowance of 20 minutes cached and 0 or 5 minutes of it used
InitialFlash ==
    {NoRecord} \cup
    { [NoRecord EXCEPT !.lastWeekday = getCurrentWeekday(T0),
                       !.dailyAllowance = 20 * 60,
                       !.consumedToday = c,
                       !.consumedWeekday = getCurrentWeekday(T0)] : c \in {0, 5 * 60} }

World ==
    [timer |-> timer, nvs |-> nvs, pushed |-> pushed, app |-> app, rtc |-> rtc, ui |-> ui]

Becomes(w) ==
    /\ timer' = w.timer
    /\ nvs' = w.nvs
    /\ pushed' = w.pushed
    /\ app' = w.app
    /\ rtc' = w.rtc
    /\ ui' = w.ui

InitApp ==
    /\ timer = ScreenTimer
    /\ now = T0
    /\ h = NoCall
    /\ ledger = NoLedger
    /\ snapshot = SessionSnapshot
    /\ nvs \in InitialFlash
    /\ pushed = << >>
    /\ app = ScreenTimeState
    /\ rtc = RtcMemory
    /\ ui = [NoUi EXCEPT !.pc = "setup"]
    /\ atSleep = ScreenTimer
    /\ sleptAt = 0
    /\ atLoss = NoLoss
    /\ polling = Polling
    /\ parent = ParentScreen

Pass ==
    /\ ui.pc \in {"loop", "asleep"}
    /\ \E tod \in TimesOfDay :
          /\ now % SECS_PER_DAY < tod
          /\ now' = (now \div SECS_PER_DAY) * SECS_PER_DAY + tod
          /\ ui.pc = "asleep" /\ ui.wakeAt > 0 => now' <= ui.wakeAt
    /\ UNCHANGED <<timer, h, ledger, sessionVars, appVars>>

WakeByButton ==
    /\ ui.pc = "asleep"
    /\ timer' = ScreenTimer
    /\ app' = ScreenTimeState
    /\ ui' = [NoUi EXCEPT !.pc = "setup", !.wakeupCause = "button"]
    /\ UNCHANGED <<now, h, ledger, sessionVars, rtc, atSleep, sleptAt, atLoss, polling, parent>>

WakeByTimer ==
    /\ ui.pc = "asleep"
    /\ ui.wakeAt > 0
    /\ now' = ui.wakeAt
    /\ timer' = ScreenTimer
    /\ app' = ScreenTimeState
    /\ ui' = [NoUi EXCEPT !.pc = "setup", !.wakeupCause = "timer"]
    /\ UNCHANGED <<h, ledger, sessionVars, rtc, atSleep, sleptAt, atLoss, polling, parent>>

SetupRestore ==
    /\ ui.pc = "setup"
    /\ h.seq < MaxEvents
    /\ Becomes([setupRestore(World, now) EXCEPT !.ui.pc = "entering"])
    /\ h' = Call("setupRestore", 0, 0)
    /\ UNCHANGED <<now, ledger, snapshot, atSleep, sleptAt, atLoss, polling, parent>>

SetupEnter ==
    /\ ui.pc = "entering"
    /\ h.seq < MaxEvents
    /\ \E result \in FetchResults, timeSyncSuccess \in BOOLEAN :
          Becomes([setupEnter(World, result, timeSyncSuccess, now)
                     EXCEPT !.ui.pc = "loop"])
    /\ h' = Call("setupEnter", 0, 0)
    /\ UNCHANGED <<now, ledger, snapshot, atSleep, sleptAt, atLoss, polling, parent>>

ButtonA ==
    /\ ui.pc = "loop"
    /\ h.seq < MaxEvents
    /\ \E result \in FetchResults : Becomes(handleButtonA(World, result, now))
    /\ h' = Call(IF ui.dialog # "none" THEN ui.dialog ELSE "toggleTimer", 0, 0)
    /\ UNCHANGED <<now, ledger, snapshot, atSleep, sleptAt, atLoss, polling, parent>>

ButtonB ==
    /\ ui.pc = "loop"
    /\ ui.dialog \in {"minimumSession", "timeUp"}
    /\ Becomes(handleButtonB(World))
    /\ UNCHANGED <<now, h, ledger, snapshot, atSleep, sleptAt, atLoss, polling, parent>>

LoopUpdate ==
    /\ ui.pc = "loop"
    /\ Becomes(ScreenManager_update(World, now))
    /\ UNCHANGED <<now, h, ledger, snapshot, atSleep, sleptAt, atLoss, polling, parent>>

RefreshSync ==
    /\ ui.pc = "loop"
    /\ ui.dialog = "none"
    /\ h.seq < MaxEvents
    /\ \E result \in FetchResults, timeSuccess \in BOOLEAN :
          Becomes(doRefreshSync(World, timeSuccess, result, now))
    /\ h' = Call("doRefreshSync", 0, 0)
    /\ UNCHANGED <<now, ledger, snapshot, atSleep, sleptAt, atLoss, polling, parent>>

GoToSleep ==
    /\ ui.pc = "loop"
    /\ ui.dialog = "none"
    /\ h.seq < MaxEvents
    /\ Becomes(tryGoToSleep(World, now))
    /\ atSleep' = IF tryGoToSleep(World, now).ui.pc = "asleep" THEN timer ELSE atSleep
    /\ sleptAt' = IF tryGoToSleep(World, now).ui.pc = "asleep" THEN now ELSE sleptAt
    /\ h' = Call("tryGoToSleep", 0, 0)
    /\ UNCHANGED <<now, ledger, snapshot, atLoss, polling, parent>>

NextApp ==
    \/ Pass
    \/ NextDay
    \/ NextWeek
    \/ WakeByButton
    \/ WakeByTimer
    \/ SetupRestore
    \/ SetupEnter
    \/ ButtonA
    \/ ButtonB
    \/ LoopUpdate
    \/ RefreshSync
    \/ GoToSleep

SpecApp == InitApp /\ [][NextApp]_vars

(***************************************************************************)
(* SpecReconcile: the two restores.  A snapshot of any field values is     *)
(* received once; it is restored by SessionManager::restoreFromSnapshot()  *)
(* or, written to the RTC variables with either value of the was-running   *)
(* flag, by checkAndRestoreFromSleep() on a wake by button, all on one     *)
(* day: the snapshot's weekday is today's, another day's, or not set.      *)
(***************************************************************************)
\* the RTC variables holding snapshot s
RtcOf(s, wasTimerRunning) ==
    [wasTimerRunning |-> wasTimerRunning,
     sessionStartTime |-> s.sessionStartTime,
     consumedTodaySeconds |-> s.consumedTodaySeconds,
     hasValidState |-> s.isValid,
     timerState |-> s.timerState,
     weekday |-> s.weekday]

\* the world on a wake by button with snapshot s in the RTC variables
WokenWith(s, wasTimerRunning) ==
    [World EXCEPT !.rtc = RtcOf(s, wasTimerRunning), !.ui.wakeupCause = "button"]

CheckAndRestoreFromSleep ==
    /\ h.seq < MaxCalls
    /\ \E wasTimerRunning \in BOOLEAN :
          /\ Becomes(checkAndRestoreFromSleep(WokenWith(snapshot, wasTimerRunning), now))
          /\ h' = Call("checkAndRestoreFromSleep", Bool(wasTimerRunning), 0)
    /\ UNCHANGED <<now, ledger, snapshot, atSleep, sleptAt, atLoss, polling, parent>>

NextReconcile ==
    \/ Tick
    \/ StartSession
    \/ ReceiveSnapshot
    \/ RestoreFromSnapshot
    \/ CheckAndRestoreFromSleep

SpecReconcile == InitSession /\ [][NextReconcile]_vars

(***************************************************************************)
(* SpecPower: the device on one day, losing power once, awake or asleep.   *)
(* The timer, AppState and the RTC memory are lost, the flash is kept, and *)
(* the device boots cold; the events are counted from the power-up.  The   *)
(* flash found at the first power-up may also hold an allowance of 15      *)
(* minutes.                                                                *)
(***************************************************************************)
InitPower ==
    /\ timer = ScreenTimer
    /\ now = T0
    /\ h = NoCall
    /\ ledger = NoLedger
    /\ snapshot = SessionSnapshot
    /\ nvs \in InitialFlash \cup
               { [NoRecord EXCEPT !.lastWeekday = getCurrentWeekday(T0),
                                  !.dailyAllowance = 15 * 60] }
    /\ pushed = << >>
    /\ app = ScreenTimeState
    /\ rtc = RtcMemory
    /\ ui = [NoUi EXCEPT !.pc = "setup"]
    /\ atSleep = ScreenTimer
    /\ sleptAt = 0
    /\ atLoss = NoLoss
    /\ polling = Polling
    /\ parent = ParentScreen

PowerLoss ==
    /\ ui.pc \in {"loop", "asleep"}
    /\ ~atLoss.lost
    /\ atLoss' = [lost |-> TRUE,
                  consumedTodaySeconds |-> getCompletedSessionsSeconds(timer)]
    /\ timer' = ScreenTimer
    /\ app' = ScreenTimeState
    /\ rtc' = RtcMemory
    /\ ui' = [NoUi EXCEPT !.pc = "setup"]
    /\ h' = NoCall
    /\ UNCHANGED <<now, ledger, sessionVars, atSleep, sleptAt, polling, parent>>

NextPower ==
    \/ Pass
    \/ PowerLoss
    \/ WakeByButton
    \/ WakeByTimer
    \/ SetupRestore
    \/ SetupEnter
    \/ ButtonA
    \/ ButtonB
    \/ LoopUpdate
    \/ RefreshSync
    \/ GoToSleep

SpecPower == InitPower /\ [][NextPower]_vars

(***************************************************************************)
(* Statements about the timer, checked under SpecTimer.                    *)
(***************************************************************************)
\* the step is a call of the named operation
IsCall(op) == h'.seq # h.seq /\ h'.op = op

\* C1: in every reachable state the timer is RUNNING if and only if
\* sessionStartTime is not 0.
C1_RunningIffSessionStart ==
    (timer.state = RUNNING) <=> (timer.sessionStartTime # 0)

\* C2: in every reachable state with state EXPIRED, the remaining time is 0
\* and sessionStartTime is 0.
C2_ExpiredMeansNothingLeft ==
    timer.state = EXPIRED =>
        /\ calculateRemainingSeconds(timer, now) = 0
        /\ timer.sessionStartTime = 0

\* C4: stop(M) on a RUNNING timer whose elapsed time e is below M adds
\* exactly M (in uint32_t arithmetic) to consumedTodaySeconds and returns e.
C4_StopCommitsMinimumReturnsActual ==
    [][ ( /\ IsCall("stop")
          /\ timer.state = RUNNING
          /\ calculateCurrentSessionSeconds(timer, now) < h'.arg )
        => ( /\ timer'.consumedTodaySeconds = u32(timer.consumedTodaySeconds + h'.arg)
             /\ h'.ret = calculateCurrentSessionSeconds(timer, now)
             /\ h'.ret # h'.arg ) ]_vars

\* a session of 1 second has just been stopped with a minimum of 2
C4_Witness ==
    /\ h.op = "stop" /\ h.arg = 2 /\ h.ret = 1
    /\ timer.state = STOPPED
    /\ timer.consumedTodaySeconds >= 2

\* C7: with a fixed allowance and only start()/update()/stop(0), whenever no
\* session is in progress consumedTodaySeconds is the sum of the wall-clock
\* durations of the sessions that have ended, and the remaining time is the
\* allowance less that, clamped at 0.
C7_Conservation ==
    timer.state # RUNNING =>
        /\ timer.consumedTodaySeconds = ledger.total
        /\ calculateRemainingSeconds(timer, now) =
              IF ledger.total >= timer.totalAllowanceSeconds THEN 0
              ELSE timer.totalAllowanceSeconds - ledger.total

(***************************************************************************)
(* Statements about the session manager, checked under SpecSession.        *)
(***************************************************************************)
\* the snapshot is of a running session and is of the weekday of clock clk
RunningSnapshotOfToday(clk) ==
    /\ snapshot.isValid
    /\ snapshot.timerState = RUNNING
    /\ snapshot.sessionStartTime > 0
    /\ snapshot.weekday = getCurrentWeekday(clk)

\* C3: a snapshot made while a session runs is restored on the same weekday
\* and the restored session is then stopped with stopSession(0): the time
\* committed for the session, on top of the time of the sessions that had
\* ended when the snapshot was made, is the wall-clock span from the session's
\* original start to the stop, and that span is what stopSession returns.
C3_RestoredSessionCountedOnce ==
    [][ ( /\ IsCall("stopSession") /\ h'.arg = 0
          /\ h.op = "restoreFromSnapshot" /\ h.ret = 1
          /\ snapshot.isValid /\ snapshot.timerState = RUNNING
          /\ snapshot.sessionStartTime > 0
          /\ timer.state = RUNNING )
        => ( /\ timer'.consumedTodaySeconds =
                  u32(ledger.total + (now - snapshot.sessionStartTime))
             /\ h'.ret = now - snapshot.sessionStartTime ) ]_vars

\* a restored session has been stopped with stopSession(0): it had run for 2
\* seconds or more since its original start
C3_Witness ==
    /\ h.op = "stopSession" /\ h.arg = 0 /\ h.prev = "restoreFromSnapshot"
    /\ h.ret >= 2
    /\ snapshot.isValid /\ snapshot.timerState = RUNNING
    /\ timer.state = STOPPED
    /\ timer.consumedTodaySeconds = ledger.total + h.ret

\* C6: startSession() followed, after any time, by abortSession() leaves
\* consumedTodaySeconds as it was before the start (neither call changes it),
\* ends the session, and abortSession() writes nothing to flash and pushes
\* nothing.
C6_AbortIsInvisible ==
    [][ /\ IsCall("startSession") =>
              timer'.consumedTodaySeconds = timer.consumedTodaySeconds
        /\ IsCall("abortSession") =>
              /\ timer'.consumedTodaySeconds = timer.consumedTodaySeconds
              /\ timer'.totalAllowanceSeconds = timer.totalAllowanceSeconds
              /\ timer.state = RUNNING =>
                    timer'.state = STOPPED /\ timer'.sessionStartTime = 0
              /\ nvs' = nvs
              /\ pushed' = pushed ]_vars

\* a session started and, a day and more later, aborted
C6_Witness ==
    /\ h.op = "abortSession" /\ h.prev = "startSession"
    /\ timer.state = STOPPED
    /\ timer.sessionStartTime = 0
    /\ timer.consumedTodaySeconds = 0
    /\ now > SECS_PER_DAY
    /\ nvs = NoRecord /\ pushed = << >>

\* C8: restoring a same-day snapshot of a running session whose start lies so
\* far back that the time since is at least what the snapshot's consumed time
\* leaves of the allowance, leaves the timer EXPIRED with consumedTodaySeconds
\* equal to the allowance, sessionStartTime 0 and nothing remaining.
C8_RestoreOfExhaustedSessionExpires ==
    [][ ( /\ IsCall("restoreFromSnapshot")
          /\ RunningSnapshotOfToday(now)
          /\ snapshot.sessionStartTime <= now
          /\ snapshot.consumedTodaySeconds + (now - snapshot.sessionStartTime)
                >= timer.totalAllowanceSeconds )
        => ( /\ timer'.state = EXPIRED
             /\ timer'.consumedTodaySeconds = timer.totalAllowanceSeconds
             /\ timer'.totalAllowanceSeconds = timer.totalAllowanceSeconds
             /\ timer'.sessionStartTime = 0
             /\ calculateRemainingSeconds(timer', now) = 0
             /\ h'.ret = 0 ) ]_vars

\* a snapshot of a running session with allowance left was restored after
\* the allowance ran out, and the timer is EXPIRED
C8_Witness ==
    /\ h.op = "restoreFromSnapshot" /\ h.ret = 0
    /\ RunningSnapshotOfToday(now)
    /\ snapshot.consumedTodaySeconds < timer.totalAllowanceSeconds
    /\ now - snapshot.sessionStartTime > timer.totalAllowanceSeconds
    /\ timer.state = EXPIRED
    /\ timer.consumedTodaySeconds = timer.totalAllowanceSeconds

(***************************************************************************)
(* Statements about the device, checked under SpecApp.                     *)
(***************************************************************************)
\* C5: button A on the main screen with a session running for e seconds:
\* below MISTAKEN_SESSION_DURATION_SECS the session is aborted and nothing is
\* charged, written or pushed; below MINIMUM_SESSION_DURATION_SECONDS the
\* timer is left as it is and the confirmation is shown; otherwise the
\* session is stopped and e is charged.  In the confirmation, OK stops the
\* session and charges the minimum (e, if time went on past the minimum);
\* "Don't pause" leaves timer, flash and pushes as they are.
C5_ToggleOffThreeWays ==
    [][ LET e == calculateCurrentSessionSeconds(timer, now)
        IN  /\ (IsCall("toggleTimer") /\ isRunning(timer)) =>
                  IF e < MISTAKEN_SESSION_DURATION_SECS
                  THEN /\ timer' = [timer EXCEPT !.state = STOPPED,
                                                 !.sessionStartTime = 0]
                       /\ nvs' = nvs /\ pushed' = pushed
                       /\ ui'.dialog = "none"
                  ELSE IF e < MINIMUM_SESSION_DURATION_SECONDS
                  THEN /\ timer' = timer
                       /\ nvs' = nvs /\ pushed' = pushed
                       /\ ui'.dialog = "minimumSession"
                  ELSE /\ timer'.state = STOPPED
                       /\ timer'.consumedTodaySeconds =
                             u32(timer.consumedTodaySeconds + e)
                       /\ Len(pushed') = Len(pushed) + 1
                       /\ ui'.dialog = "none"
            /\ (IsCall("minimumSession") /\ isRunning(timer)) =>
                  IF ui.selectedButton = 1
                  THEN /\ timer'.state = STOPPED
                       /\ timer'.consumedTodaySeconds =
                             u32(timer.consumedTodaySeconds
                                 + IF e < MINIMUM_SESSION_DURATION_SECONDS
                                   THEN MINIMUM_SESSION_DURATION_SECONDS ELSE e)
                       /\ Len(pushed') = Len(pushed) + 1
                       /\ ui'.dialog = "none"
                  ELSE /\ timer' = timer
                       /\ nvs' = nvs /\ pushed' = pushed
                       /\ ui'.dialog = "none" ]_vars

\* a session of less than the minimum was toggled off, the confirmation
\* answered with OK, and the minimum of 5 minutes charged and pushed
C5_Witness ==
    /\ h.op = "minimumSession" /\ h.prev = "toggleTimer"
    /\ timer.state = STOPPED
    /\ Len(pushed) = 1
    /\ pushed[1].durationMinutes = MINIMUM_SESSION_DURATION_SECONDS \div 60
    /\ now - pushed[1].startTime < MINIMUM_SESSION_DURATION_SECONDS
    /\ now - pushed[1].startTime >= MISTAKEN_SESSION_DURATION_SECS
    /\ timer.consumedTodaySeconds >= MINIMUM_SESSION_DURATION_SECONDS

\* the boot is a wake from a sleep that began, this weekday, with the session
\* running, and setup() is about to enter the main screen
WokeWithSession ==
    /\ ui.pc = "entering"
    /\ ui.wokeFromSleep
    /\ atSleep.state = RUNNING
    /\ rtc.weekday = getCurrentWeekday(now)

\* what the session that ran at the sleep has used by now, the time before it
\* included
UsedSinceSleep == atSleep.consumedTodaySeconds + (now - atSleep.sessionStartTime)

\* C9: a wake boot whose session ran out of the allowance during the sleep
\* (the allowance cached in flash being the one the timer slept with) ends
\* setup() with the timer EXPIRED and consumedTodaySeconds equal to the
\* allowance.
C9_ExpiredInSleepStaysExpired ==
    [][ ( /\ IsCall("setupEnter")
          /\ WokeWithSession
          /\ ~app.hasUnlimitedAllowance
          /\ app.dailyAllowanceSeconds = atSleep.totalAllowanceSeconds
          /\ UsedSinceSleep >= atSleep.totalAllowanceSeconds
          /\ isExpired(timer) )
        => ( /\ timer'.state = EXPIRED
             /\ timer'.consumedTodaySeconds = timer'.totalAllowanceSeconds ) ]_vars

\* C10: a wake boot on the weekday of the sleep whose session has not used up
\* the allowance it slept with ends setup() with the timer RUNNING, the
\* session start and the completed time those of the sleep, and the total
\* consumed the completed time plus the time since the session's start.
C10_SessionContinuesAcrossSleep ==
    [][ ( /\ IsCall("setupEnter")
          /\ WokeWithSession
          /\ UsedSinceSleep < atSleep.totalAllowanceSeconds )
        => ( /\ timer'.state = RUNNING
             /\ timer'.sessionStartTime = atSleep.sessionStartTime
             /\ timer'.consumedTodaySeconds = atSleep.consumedTodaySeconds
             /\ getTotalConsumedSeconds(timer', now) = UsedSinceSleep ) ]_vars

(***************************************************************************)
(* Statements about restoreFromSnapshot() on any snapshot, checked under   *)
(* SpecRestore.                                                            *)
(***************************************************************************)
\* C11 as stated: restoreFromSnapshot() of a snapshot whose weekday differs
\* from the current weekday returns false and leaves the timer's state,
\* consumedTodaySeconds and sessionStartTime unchanged, whatever the other
\* fields of the snapshot are.
C11_OtherWeekdayRejected ==
    [][ ( /\ IsCall("restoreFromSnapshot")
          /\ snapshot.weekday # getCurrentWeekday(now) )
        => ( /\ h'.ret = 0
             /\ timer'.state = timer.state
             /\ timer'.consumedTodaySeconds = timer.consumedTodaySeconds
             /\ timer'.sessionStartTime = timer.sessionStartTime ) ]_vars

\* C11: restoreFromSnapshot() of a snapshot whose weekday is set (0..6) and
\* differs from the current weekday returns false and leaves the timer's
\* state, consumedTodaySeconds and sessionStartTime unchanged, whatever the
\* other fields of the snapshot are.
C11_OtherSetWeekdayRejected ==
    [][ ( /\ IsCall("restoreFromSnapshot")
          /\ snapshot.weekday # NO_WEEKDAY
          /\ snapshot.weekday # getCurrentWeekday(now) )
        => ( /\ h'.ret = 0
             /\ timer'.state = timer.state
             /\ timer'.consumedTodaySeconds = timer.consumedTodaySeconds
             /\ timer'.sessionStartTime = timer.sessionStartTime ) ]_vars

\* a valid RUNNING snapshot of another weekday, its start a second ago and
\* its consumed time not the timer's, was handed to restoreFromSnapshot(),
\* which returned false; the timer is stopped with nothing consumed
C11_Witness ==
    /\ h.op = "restoreFromSnapshot" /\ h.ret = 0
    /\ snapshot.isValid
    /\ snapshot.timerState = RUNNING
    /\ snapshot.sessionStartTime = now - 1
    /\ snapshot.consumedTodaySeconds = 2
    /\ snapshot.weekday # NO_WEEKDAY
    /\ snapshot.weekday # getCurrentWeekday(now)
    /\ timer.state = STOPPED
    /\ timer.consumedTodaySeconds = 0

(***************************************************************************)
(* Statements about the days of the device, checked under SpecApp.         *)
(***************************************************************************)
\* C12: when setup() enters the main screen and the last active weekday
\* loaded from flash is a weekday other than the current one, then after the
\* entry the
\* consumed time in flash is cleared, the timer is reset (STOPPED,
\* consumedTodaySeconds 0, sessionStartTime 0), and the last active weekday,
\* in AppState and in flash, is the current weekday.
C12_DayChangeResetsOnEntry ==
    [][ ( /\ IsCall("setupEnter")
          /\ app.lastActiveWeekday # NO_WEEKDAY
          /\ hasWeekdayChanged(app, now) )
        => ( /\ loadFromNvs(nvs', getCurrentWeekday(now)) = 0
             /\ nvs'.consumedToday = 0
             /\ timer'.state = STOPPED
             /\ timer'.consumedTodaySeconds = 0
             /\ timer'.sessionStartTime = 0
             /\ app'.lastActiveWeekday = getCurrentWeekday(now)
             /\ nvs'.lastWeekday = getCurrentWeekday(now) ) ]_vars

\* the boot is a wake from a sleep that began on another calendar day
WokeOnAnotherDay ==
    /\ ui.pc = "setup"
    /\ ui.wakeupCause # "undefined"
    /\ rtc.hasValidState
    /\ sleptAt \div SECS_PER_DAY # now \div SECS_PER_DAY

\* C13: after the restore of a wake boot on a calendar day other than the
\* day of the sleep, the timer has no consumed time and no running session:
\* nothing of the RTC snapshot is on it.
C13_StaleSnapshotNotReplayed ==
    [][ ( /\ IsCall("setupRestore")
          /\ WokeOnAnotherDay )
        => ( /\ timer'.consumedTodaySeconds = 0
             /\ timer'.state # RUNNING
             /\ timer'.sessionStartTime = 0 ) ]_vars

(***************************************************************************)
(* Statements about the record in flash, checked under SpecNvs.            *)
(***************************************************************************)
\* C14: loadFromNvs(currentWeekday), called after a persistToNvs() of another
\* calendar day, returns 0: a consumed time persisted on another day is
\* never returned as today's.
C14_StaleRecordNotReused ==
    [][ ( /\ IsCall("loadFromNvs")
          /\ h.op = "persistToNvs"
          /\ h.arg \div SECS_PER_DAY # now \div SECS_PER_DAY )
        => h'.ret = 0 ]_vars

(***************************************************************************)
(* Further statements about the timer, checked under SpecTimer.            *)
(***************************************************************************)
\* C15: a step that takes the timer from RUNNING to EXPIRED is a call of
\* update() or of startFromTimestamp() (or a re-initialisation by begin() or
\* reset()): start(), stop(), abortSession(), setAllowance(), addAllowance()
\* and setConsumedTodaySeconds() never expire a RUNNING timer.
C15_OnlyUpdateExpires ==
    [][ (timer.state = RUNNING /\ timer'.state = EXPIRED)
        => \/ IsCall("update")
           \/ IsCall("startFromTimestamp")
           \/ IsCall("begin")
           \/ IsCall("reset") ]_vars

(***************************************************************************)
(* Statements about refused starts, checked under SpecStart.               *)
(***************************************************************************)
\* C16: with the unlimited flag set, startSession() returns false and
\* leaves the timer as it is (state, consumedTodaySeconds, sessionStartTime
\* and allowance), whether or not start() would have accepted.
C16_UnlimitedRefusesStart ==
    [][ (IsCall("startSession") /\ app.hasUnlimitedAllowance)
        => ( /\ h'.ret = 0
             /\ timer'.state = timer.state
             /\ timer'.consumedTodaySeconds = timer.consumedTodaySeconds
             /\ timer'.sessionStartTime = timer.sessionStartTime
             /\ timer'.totalAllowanceSeconds = timer.totalAllowanceSeconds ) ]_vars

\* startSession() was refused for the unlimited flag on a stopped timer with
\* time remaining, which start() would have started
C16_Witness ==
    /\ h.op = "startSession" /\ h.ret = 0
    /\ app.hasUnlimitedAllowance
    /\ timer.state = STOPPED
    /\ calculateRemainingSeconds(timer, now) > 0
    /\ start(timer, now).ret

C18_RestoreFailsOnlyOnDayOrInvalid ==
    [][ IsCall("restoreFromSnapshot")
        => /\ h'.ret = 0
              => \/ ~snapshot.isValid
                 \/ snapshot.weekday # getCurrentWeekday(now)
           /\ ( /\ snapshot.isValid
                /\ snapshot.weekday = getCurrentWeekday(now)
                /\ snapshot.timerState = RUNNING
                /\ snapshot.sessionStartTime > 0
                /\ timer'.state = EXPIRED )
              => h'.ret = 1 ]_vars

(***************************************************************************)
(* Statements about power loss, checked under SpecPower.                   *)
(***************************************************************************)
\* C19: when the main screen has been entered on the cold boot after a power
\* loss, on the day of the loss, the timer's consumedTodaySeconds is at least
\* the time of the completed sessions the timer held when the power was
\* lost, however those sessions ended.
C19_ChargedTimeSurvivesPowerLoss ==
    [][ (IsCall("setupEnter") /\ atLoss.lost /\ ~ui.wokeFromSleep)
        => timer'.consumedTodaySeconds >= atLoss.consumedTodaySeconds ]_vars

(***************************************************************************)
(* Statements about the wake-up timer, checked under SpecApp.              *)
(***************************************************************************)
\* C20: whenever the device goes to sleep with a session RUNNING, a wake-up
\* timer is armed, and it fires before the session's remaining allowance
\* runs out.
C20_WakeArmedBeforeExpiry ==
    [][ (IsCall("tryGoToSleep") /\ ui'.pc = "asleep" /\ isRunning(timer))
        => /\ ui'.wakeAt > 0
           /\ ui'.wakeAt < now + calculateRemainingSeconds(timer, now) ]_vars

(***************************************************************************)
(* Statements about the tick of a session started by start(), checked      *)
(* under SpecStart.                                                        *)
(***************************************************************************)
\* C21: for a RUNNING session started at t0 with completed total C and
\* allowance A, update() at time t with C + (t - t0) < A leaves the timer
\* RUNNING with remaining A - C - (t - t0); update() with C + (t - t0) >= A
\* moves it to EXPIRED with consumedTodaySeconds = A and remaining 0; and
\* start() on the timer so expired is refused and leaves it EXPIRED.
C21_TickExpiresAtAllowance ==
    [][ /\ ( /\ IsCall("update")
             /\ timer.state = RUNNING
             /\ timer.consumedTodaySeconds + (now - timer.sessionStartTime)
                   < timer.totalAllowanceSeconds )
           => ( /\ timer'.state = RUNNING
                /\ calculateRemainingSeconds(timer', now)
                      = timer.totalAllowanceSeconds - timer.consumedTodaySeconds
                          - (now - timer.sessionStartTime) )
        /\ ( /\ IsCall("update")
             /\ timer.state = RUNNING
             /\ timer.consumedTodaySeconds + (now - timer.sessionStartTime)
                   >= timer.totalAllowanceSeconds )
           => ( /\ timer'.state = EXPIRED
                /\ timer'.consumedTodaySeconds = timer.totalAllowanceSeconds
                /\ timer'.totalAllowanceSeconds = timer.totalAllowanceSeconds
                /\ calculateRemainingSeconds(timer', now) = 0 )
        /\ ( /\ IsCall("start")
             /\ timer.state = EXPIRED
             /\ timer.consumedTodaySeconds = timer.totalAllowanceSeconds )
           => ( /\ h'.ret = 0
                /\ timer' = timer ) ]_vars

\* a session of allowance 3 ran two seconds and more, update() expired it,
\* and the start() that followed was refused
C21_Witness ==
    /\ h.op = "start" /\ h.prev = "update" /\ h.ret = 0
    /\ timer.state = EXPIRED
    /\ timer.totalAllowanceSeconds = 3
    /\ timer.consumedTodaySeconds = 3
    /\ now >= T0 + 2

(***************************************************************************)
(* Statements about the end of a session, checked under SpecSession.       *)
(***************************************************************************)
\* whole minutes, rounded up
MinutesRoundedUp(seconds) == IF seconds = 0 THEN 0 ELSE ((seconds - 1) \div 60) + 1

TickExpires ==
    /\ ui.pc = "loop" /\ ui'.pc = "loop"
    /\ h' = h
    /\ timer.state = RUNNING
    /\ timer'.state = EXPIRED

\* C23: when the tick moves the timer from RUNNING to EXPIRED,
\* onSessionExpired() runs once in the same iteration: the completed total,
\* equal to the allowance, is written to flash, and one push is made, with
\* the start timestamp the session had.
C23_TickExpiryRecordedOnce ==
    [][ TickExpires
        => /\ timer'.consumedTodaySeconds = timer.totalAllowanceSeconds
           /\ timer'.totalAllowanceSeconds = timer.totalAllowanceSeconds
           /\ nvs'.consumedToday = timer.totalAllowanceSeconds
           /\ nvs'.consumedWeekday = getCurrentWeekday(now)
           /\ nvs'.writes = nvs.writes + 1
           /\ Len(pushed') = Len(pushed) + 1
           /\ pushed'[Len(pushed')].startTime = timer.sessionStartTime
           /\ timer.sessionStartTime # 0 ]_vars

\* a session started in this boot ran out in the loop: the timer is EXPIRED
\* on a limited allowance, which is in flash as today's completed time, and
\* the session was pushed
C23_Witness ==
    /\ ui.pc = "loop"
    /\ ~ui.wokeFromSleep
    /\ h.op = "toggleTimer"
    /\ timer.state = EXPIRED
    /\ timer.sessionStartTime = 0
    /\ timer.totalAllowanceSeconds = 20 * 60
    /\ timer.consumedTodaySeconds = timer.totalAllowanceSeconds
    /\ nvs.consumedToday = timer.totalAllowanceSeconds
    /\ nvs.consumedWeekday = getCurrentWeekday(now)
    /\ Len(pushed) = 1
    /\ pushed[1].startTime = T0

\* C24: while a session is RUNNING, every iteration of loop() runs
\* ScreenTimer::update(), whatever dialog is shown: in the loop, with the
\* remaining time at 0, the iteration's update leaves the timer EXPIRED.
C24_EveryIterationTicks ==
    (ui.pc = "loop" /\ isRunning(timer) /\ calculateRemainingSeconds(timer, now) = 0)
        => isExpired(ScreenManager_update(World, now).timer)

(***************************************************************************)
(* Statements about the two restores, checked under SpecReconcile.         *)
(***************************************************************************)
\* C25: for every valid snapshot of the current weekday, whatever its other
\* fields, the restore of checkAndRestoreFromSleep() (the was-running flag
\* as tryGoToSleep() writes it: set exactly for a RUNNING snapshot) leaves
\* state, consumedTodaySeconds and sessionStartTime as restoreFromSnapshot()
\* leaves them for the same timer, snapshot and clock.
C25_OneReconciliation ==
    [][ ( /\ IsCall("checkAndRestoreFromSleep")
          /\ snapshot.isValid
          /\ snapshot.weekday = getCurrentWeekday(now)
          /\ h'.arg = Bool(snapshot.timerState = RUNNING) )
        => LET r == restoreFromSnapshot(timer, snapshot, getCurrentWeekday(now), now).t
           IN  /\ timer'.state = r.state
               /\ timer'.consumedTodaySeconds = r.consumedTodaySeconds
               /\ timer'.sessionStartTime = r.sessionStartTime ]_vars

(***************************************************************************)
(* Statements about the EXPIRED state, checked under SpecApp.              *)
(***************************************************************************)
\* C26: a timer that is EXPIRED stays EXPIRED through every step of the
\* running firmware (the boot that rebuilds the timer after a sleep aside)
\* unless the step increases the allowance or handles the change of day.
C26_ExpiredIsTerminal ==
    [][ ( /\ timer.state = EXPIRED
          /\ timer'.state # EXPIRED
          /\ ui.pc # "asleep" )
        => \/ timer'.totalAllowanceSeconds > timer.totalAllowanceSeconds
           \/ IsCall("setupEnter") /\ hasWeekdayChanged(app, now) ]_vars

(***************************************************************************)
(* Statements about the timer's state and allowance, checked under         *)
(* SpecStart.                                                              *)
(***************************************************************************)
\* C27: in every reachable state in which no session is running,
\* isExpired() is true exactly when calculateRemainingSeconds() is 0.
C27_ExpiredIffNothingRemains ==
    ~isRunning(timer) => (isExpired(timer) <=> calculateRemainingSeconds(timer, now) = 0)

(***************************************************************************)
(* Statements about changes of the allowance, checked under SpecStart and  *)
(* SpecTimer.                                                              *)
(***************************************************************************)
\* C28: setAllowance(v) with v > 0 and addAllowance(d) leave
\* consumedTodaySeconds and sessionStartTime unchanged and change the state
\* only from EXPIRED to STOPPED, and only when time remains afterwards;
\* setAllowance(0) changes nothing.
C28_AllowanceChangesOnlyAllowance ==
    [][ /\ ( \/ IsCall("setAllowance") /\ h'.arg > 0
             \/ IsCall("addAllowance") )
           => ( /\ timer'.consumedTodaySeconds = timer.consumedTodaySeconds
                /\ timer'.sessionStartTime = timer.sessionStartTime
                /\ timer'.state # timer.state
                      => ( /\ timer.state = EXPIRED
                           /\ timer'.state = STOPPED
                           /\ calculateRemainingSeconds(timer', now) > 0 ) )
        /\ (IsCall("setAllowance") /\ h'.arg = 0) => timer' = timer ]_vars

(***************************************************************************)
(* Statements about restores of arbitrary snapshots, checked under         *)
(* SpecReconcile.                                                          *)
(***************************************************************************)
\* the timer invariants: RUNNING exactly when a session start is set, and
\* nothing remaining when EXPIRED
TimerInvariants(t, clk) ==
    /\ (t.state = RUNNING) <=> (t.sessionStartTime # 0)
    /\ t.state = EXPIRED => calculateRemainingSeconds(t, clk) = 0

\* C29: whatever the field values of the snapshot, a restore (by
\* restoreFromSnapshot() or by checkAndRestoreFromSleep()) of a timer that
\* satisfies the timer invariants leaves it satisfying them.
C29_RestoreKeepsTimerInvariants ==
    [][ ( /\ IsCall("restoreFromSnapshot") \/ IsCall("checkAndRestoreFromSleep")
          /\ TimerInvariants(timer, now) )
        => TimerInvariants(timer', now) ]_vars

(***************************************************************************)
(* Statements about repeated restores, checked under SpecRestore.          *)
(***************************************************************************)
\* C30: for a snapshot of the current weekday with timerState RUNNING,
\* restoreFromSnapshot() called again at the same clock reading on the timer
\* the first call left gives the same state, consumedTodaySeconds and
\* sessionStartTime and the same return value.
C30_RestoreIdempotent ==
    [][ ( /\ IsCall("restoreFromSnapshot")
          /\ snapshot.weekday = getCurrentWeekday(now)
          /\ snapshot.timerState = RUNNING )
        => LET again == restoreFromSnapshot(timer', snapshot, getCurrentWeekday(now), now)
           IN  /\ again.t.state = timer'.state
               /\ again.t.consumedTodaySeconds = timer'.consumedTodaySeconds
               /\ again.t.sessionStartTime = timer'.sessionStartTime
               /\ Bool(again.ret) = h'.ret ]_vars

\* a valid RUNNING snapshot of today with 2 s completed was restored twice
\* in a row on a timer with time left, and the session is running from the
\* snapshot's start with 2 s completed
C30_Witness ==
    /\ h.op = "restoreFromSnapshot" /\ h.prev = "restoreFromSnapshot"
    /\ h.ret = 1
    /\ snapshot.isValid
    /\ snapshot.weekday = getCurrentWeekday(now)
    /\ snapshot.timerState = RUNNING
    /\ snapshot.sessionStartTime = T0
    /\ snapshot.consumedTodaySeconds = 2
    /\ timer.state = RUNNING
    /\ timer.sessionStartTime = T0
    /\ timer.consumedTodaySeconds = 2

(***************************************************************************)
(* SpecPush: sessions ended by stopSession() and by the tick of the main   *)
(* screen, the Allowance Service answering each push with success or with  *)
(* failure.  pushSessionToApi() reads ConsumedTimeResult.success for its  *)
(* log line only; the answer is kept in the history variable.              *)
(***************************************************************************)
ConsumedTimeResults == BOOLEAN

StopSessionWithResult ==
    /\ h.seq < MaxCalls
    /\ \E m \in MinimumValues, success \in ConsumedTimeResults :
          LET r == stopSession(timer, nvs, pushed, m, now)
          IN  /\ timer' = r.t
              /\ nvs' = r.nvs
              /\ pushed' = r.pushed
              /\ h' = Call("stopSession", Bool(success), r.ret)
    /\ UNCHANGED <<now, ledger, snapshot, appVars>>

\* MainScreen::update() on a session that has used its allowance
TimerExpiredWithResult ==
    /\ h.seq < MaxCalls
    /\ isRunning(timer)
    /\ isExpired(update(timer, now))
    /\ \E success \in ConsumedTimeResults :
          /\ Becomes(MainScreen_update(World, now))
          /\ h' = Call("onSessionExpired", Bool(success), 0)
    /\ UNCHANGED <<now, ledger, snapshot, atSleep, sleptAt, atLoss, polling, parent>>

NextPush ==
    \/ Tick
    \/ StartSession
    \/ StopSessionWithResult
    \/ TimerExpiredWithResult

SpecPush == InitStart /\ [][NextPush]_vars

\* C31: the answer of the Allowance Service to a push changes nothing on
\* the device.  After stopSession() on a running session the timer is the
\* stopped timer and flash holds its completed total; after the tick that
\* expires a session the timer is the expired timer and flash holds its
\* total; both whatever the answer was, and with at most one push made.
C31_PushOutcomeLeavesLocalStateAlone ==
    [][ /\ IsCall("stopSession")
            => /\ h'.arg \in {Bool(TRUE), Bool(FALSE)}
               /\ \E m \in MinimumValues :
                     /\ timer' = IF isRunning(timer) THEN stop(timer, m, now).t
                                                     ELSE timer
                     /\ nvs' = IF isRunning(timer)
                               THEN persistToNvs(timer', nvs, now) ELSE nvs
               /\ Len(pushed') \in {Len(pushed), Len(pushed) + 1}
        /\ IsCall("onSessionExpired")
            => /\ h'.arg \in {Bool(TRUE), Bool(FALSE)}
               /\ timer' = update(timer, now)
               /\ nvs' = persistToNvs(timer', nvs, now)
               /\ Len(pushed') \in {Len(pushed), Len(pushed) + 1} ]_vars

\* a session of two seconds was stopped and its push failed: the timer is
\* stopped with the two seconds charged, flash holds them, and the one push
\* is not repeated
C31_Witness ==
    /\ h.op = "stopSession" /\ h.arg = Bool(FALSE) /\ h.ret = 2
    /\ timer.state = STOPPED
    /\ timer.consumedTodaySeconds = 2
    /\ nvs.consumedToday = 2
    /\ Len(pushed) = 1

(***************************************************************************)
(* Statements about the remaining time.                                    *)
(***************************************************************************)
\* the time of the running session on the wall clock: now - sessionStartTime
\* where that is not negative, 0 otherwise and with no session running
ElapsedOnWallClock(t, clk) ==
    IF t.state = RUNNING /\ clk > t.sessionStartTime
    THEN clk - t.sessionStartTime ELSE 0

C34_StartWhileRunningRefused ==
    [][ (IsCall("startSession") /\ isRunning(timer))
        => /\ h'.ret = Bool(FALSE)
           /\ timer'.state = RUNNING
           /\ timer'.sessionStartTime = timer.sessionStartTime
           /\ timer'.consumedTodaySeconds = timer.consumedTodaySeconds ]_vars

(***************************************************************************)
(* Statements about the unlimited allowance, checked under SpecApp.        *)
(***************************************************************************)
\* C33: in every state in which the unlimited-allowance flag of AppState is
\* set, no session is RUNNING: the timer does no arithmetic on the sentinel
\* allowance.
C33_NoSessionWhileUnlimited ==
    app.hasUnlimitedAllowance => timer.state # RUNNING

(***************************************************************************)
(* Statements about the change of day, checked under SpecApp.              *)
(***************************************************************************)
\* C35: a step that moves the last-active weekday in flash from one weekday
\* to another leaves the timer with nothing of the earlier day: no consumed
\* time and no running session.  No step advances the weekday and keeps
\* the earlier day's time in the timer.
C35_DayChangeNeverMasked ==
    [][ (/\ nvs.lastWeekday # NO_WEEKDAY
         /\ nvs'.lastWeekday # nvs.lastWeekday)
        => /\ nvs'.lastWeekday = getCurrentWeekday(now)
           /\ timer'.consumedTodaySeconds = 0
           /\ timer'.state # RUNNING ]_vars

(***************************************************************************)
(* Statements about the charge of a toggled session, checked under SpecApp.*)
(***************************************************************************)
\* C36: a button A, on the main screen or in the minimum-session
\* confirmation, that ends the running session charges either nothing or at
\* least MINIMUM_SESSION_DURATION_SECONDS: consumedTodaySeconds grows by 0
\* or by the minimum or more, never by less.
C36_ToggleChargesNothingOrMinimum ==
    [][ (/\ IsCall("toggleTimer") \/ IsCall("minimumSession")
         /\ isRunning(timer)
         /\ ~isRunning(timer'))
        => LET charge == timer'.consumedTodaySeconds - timer.consumedTodaySeconds
           IN  \/ charge = 0
               \/ charge >= MINIMUM_SESSION_DURATION_SECONDS ]_vars

\* a session of 296 seconds was ended in the confirmation: the minimum was
\* charged on a timer that had consumed nothing before
C36_Witness ==
    /\ h.op = "minimumSession"
    /\ timer.state = STOPPED
    /\ Len(pushed) = 1
    /\ now - pushed[1].startTime = 296
    /\ timer.consumedTodaySeconds = MINIMUM_SESSION_DURATION_SECONDS
    /\ nvs.consumedToday = MINIMUM_SESSION_DURATION_SECONDS

(***************************************************************************)
(* PollingManager (polling_manager.cpp) and the polling mode of            *)
(* NetworkManager (network.cpp).  The operators work on the record q of    *)
(* both managers and millis().  begin() has been called: the API client    *)
(* and the network manager are set.  Every poll is started with a callback.*)
(***************************************************************************)
\* milliseconds, scaled down: the timeout and the interval of a poll, the
\* WiFi keep-alive, and the last reading of millis()
PollTimeoutMs == 3
PollIntervalMs == 2
KeepAliveMs == 2
MaxMillis == 6
\* polls started in one behaviour
MaxPolls == 3

isPolling(q) == q.pm.type # "NONE" /\ q.pm.status = "POLLING"

\* connects: whether connect() succeeds when WiFi is not connected
beginPollingMode(q, connects) ==
    LET n == [q.network EXCEPT !.pollingMode = TRUE]
    IN  [q EXCEPT !.network =
            IF ~n.connected /\ connects
            THEN [n EXCEPT !.connected = TRUE, !.lastActivityMs = q.millis]
            ELSE n]

endPollingMode(q) ==
    [q EXCEPT !.network.pollingMode = FALSE,
              !.network.lastActivityMs = q.millis]

\* the keep-alive: WiFi is disconnected when the last activity is older
\* than the keep-alive time, unless polling mode is on
NetworkManager_update(q) ==
    IF ~q.network.connected \/ q.network.pollingMode THEN q
    ELSE IF /\ q.network.lastActivityMs > 0
            /\ u32(q.millis - q.network.lastActivityMs) > KeepAliveMs
    THEN [q EXCEPT !.network.connected = FALSE, !.network.lastActivityMs = 0]
    ELSE q

stopPolling(q) ==
    IF q.pm.type = "NONE" THEN q
    ELSE [endPollingMode(q) EXCEPT !.pm = PollingManager,
                                   !.cancelled = @ \cup {q.pm.callback}]

\* startLoginPolling() (type LOGIN) and startMoreTimePolling() (MORE_TIME)
startPolling(q, type, connects) ==
    LET q1 == IF q.pm.type # "NONE" THEN stopPolling(q) ELSE q
        q2 == [q1 EXCEPT !.started = @ + 1,
                         !.pm = [type |-> type, status |-> "POLLING",
                                 callback |-> q1.started + 1,
                                 startTimeMs |-> q.millis, lastPollMs |-> 0]]
    IN  beginPollingMode(q2, connects)

\* completePolling() that keeps the callback and invokes it a second time
completePolling_calling_twice(q, result) ==
    [q EXCEPT
        !.pm.status = IF result.success THEN "SUCCESS"
                      ELSE IF result.timedOut THEN "TIMEOUT" ELSE "ERROR",
        !.pm.type = "NONE",
        !.pm.callback = 0,
        !.invoked = Append(Append(@, [callback |-> q.pm.callback, result |-> result]),
                           [callback |-> q.pm.callback, result |-> result])]

completePolling(q, result) ==
    [q EXCEPT
        !.pm.status = IF result.success THEN "SUCCESS"
                      ELSE IF result.timedOut THEN "TIMEOUT" ELSE "ERROR",
        !.pm.type = "NONE",
        !.pm.callback = 0,
        !.invoked = IF q.pm.callback # 0
                    THEN Append(@, [callback |-> q.pm.callback, result |-> result])
                    ELSE @]

\* what pollLoginStatus() and pollMoreTimeStatus() answer
ApiPollResults == {"failed", "expired", "pending", "decided"}

\* pollLogin() and pollMoreTime()
poll(q, apiResult) ==
    IF apiResult = "failed"
    THEN completePolling(q, [success |-> FALSE, timedOut |-> FALSE])
    ELSE IF apiResult = "expired"
    THEN completePolling(q, [success |-> FALSE, timedOut |-> TRUE])
    ELSE IF apiResult # "pending"
    THEN completePolling(q, [success |-> TRUE, timedOut |-> FALSE])
    ELSE q

PollingManager_update(q, apiResult) ==
    IF q.pm.type = "NONE" \/ q.pm.status # "POLLING" THEN q
    ELSE LET elapsed == u32(q.millis - q.pm.startTimeMs)
         IN  IF elapsed >= PollTimeoutMs
             THEN completePolling(q, [success |-> FALSE, timedOut |-> TRUE])
             ELSE IF u32(q.millis - q.pm.lastPollMs) >= PollIntervalMs
             THEN poll([q EXCEPT !.pm.lastPollMs = q.millis], apiResult)
             ELSE q

(***************************************************************************)
(* SpecPolling: polls started, stopped and replaced, millis() advancing,   *)
(* and the two update() calls of loop() made at any time.                  *)
(***************************************************************************)
Millis ==
    /\ \E d \in 1 .. MaxStep :
          /\ polling.millis + d <= MaxMillis
          /\ polling' = [polling EXCEPT !.millis = @ + d]
    /\ UNCHANGED <<timer, now, h, ledger, sessionVars, app, rtc, ui, atSleep,
                   sleptAt, atLoss, parent>>

StartPolling ==
    /\ polling.started < MaxPolls
    /\ \E type \in {"LOGIN", "MORE_TIME"}, connects \in BOOLEAN :
          polling' = startPolling(polling, type, connects)
    /\ h' = Call("startPolling", 0, 0)
    /\ UNCHANGED <<timer, now, ledger, sessionVars, app, rtc, ui, atSleep,
                   sleptAt, atLoss, parent>>

StopPolling ==
    /\ h.seq < MaxEvents
    /\ polling' = stopPolling(polling)
    /\ h' = Call("stopPolling", 0, 0)
    /\ UNCHANGED <<timer, now, ledger, sessionVars, app, rtc, ui, atSleep,
                   sleptAt, atLoss, parent>>

UpdatePolling ==
    /\ h.seq < MaxEvents
    /\ \E apiResult \in ApiPollResults :
          polling' = PollingManager_update(polling, apiResult)
    /\ h' = Call("PollingManager_update", 0, 0)
    /\ UNCHANGED <<timer, now, ledger, sessionVars, app, rtc, ui, atSleep,
                   sleptAt, atLoss, parent>>

UpdateNetwork ==
    /\ polling' = NetworkManager_update(polling)
    /\ UNCHANGED <<timer, now, h, ledger, sessionVars, app, rtc, ui, atSleep,
                   sleptAt, atLoss, parent>>

NextPolling ==
    \/ Millis
    \/ StartPolling
    \/ StopPolling
    \/ UpdatePolling
    \/ UpdateNetwork

SpecPolling == InitTimer /\ [][NextPolling]_vars

\* C37: the polling mode of the network is on exactly while a poll is in
\* progress: on from the start of a poll, off once the poll has completed
\* or was stopped.
C37_PollingModeIffPolling ==
    polling.network.pollingMode <=> isPolling(polling)

\* how often the callback of poll id has been invoked
Invocations(q, id) ==
    Cardinality({i \in DOMAIN q.invoked : q.invoked[i].callback = id})

\* C38: the callback of a poll that was started and neither stopped nor
\* replaced is invoked once, and never while the poll is in progress; the
\* callback of a poll stopped or replaced is never invoked; and an update()
\* that finds the poll in progress with the timeout elapsed invokes the
\* callback with timedOut set and leaves isPolling() false.
C38_CallbackOnceTimeoutAtLatest ==
    [][ /\ \A id \in 1 .. polling'.started :
              Invocations(polling', id) =
                 IF id \in polling'.cancelled THEN 0
                 ELSE IF isPolling(polling') /\ polling'.pm.callback = id THEN 0
                 ELSE 1
        /\ (/\ IsCall("PollingManager_update")
             /\ isPolling(polling)
             /\ polling.millis - polling.pm.startTimeMs >= PollTimeoutMs)
            => /\ ~isPolling(polling')
               /\ polling'.invoked =
                     Append(polling.invoked,
                            [callback |-> polling.pm.callback,
                             result |-> [success |-> FALSE, timedOut |-> TRUE]]) ]_vars

\* the first poll was replaced by a second, which timed out: the second
\* callback was invoked once with timedOut, the first never
C38_Witness ==
    /\ h.op = "PollingManager_update"
    /\ polling.started = 2
    /\ polling.cancelled = {1}
    /\ ~isPolling(polling)
    /\ polling.pm.status = "TIMEOUT"
    /\ polling.invoked = <<[callback |-> 2,
                            result |-> [success |-> FALSE, timedOut |-> TRUE]]>>

(***************************************************************************)
(* ParentScreen (parent_screen.cpp): the unlock sequence.  A is 0, B is 1. *)
(* What the items of the parent menu do is not modelled: with the menu     *)
(* open only button B (next item) and leaving the screen are.              *)
(***************************************************************************)
SEQUENCE_LENGTH == 7

EXPECTED_SEQUENCE == <<0, 0, 0, 0, 0, 1, 0>>

\* A/B presses made in one visit of the screen
MaxPresses == 9

onUnlocked(ps) == [ps EXCEPT !.isUnlocked = TRUE, !.sequenceIndex = 0]

\* _sequenceIndex counts from 0, the tuple from 1
processSequenceButton(ps, button) ==
    IF button = EXPECTED_SEQUENCE[ps.sequenceIndex + 1]
    THEN LET ps1 == [ps EXCEPT !.sequenceIndex = @ + 1]
         IN  IF ps1.sequenceIndex >= SEQUENCE_LENGTH THEN onUnlocked(ps1) ELSE ps1
    ELSE IF button = EXPECTED_SEQUENCE[1]
    THEN [ps EXCEPT !.sequenceIndex = 1]
    ELSE [ps EXCEPT !.sequenceIndex = 0]

ParentScreen_onEnter(ps) == ParentScreen

ParentScreen_onButtonA(ps) ==
    IF ps.menuVisible THEN ps
    ELSE IF ~ps.isUnlocked THEN processSequenceButton(ps, 0)
    ELSE ps

ParentScreen_onButtonB(ps) ==
    IF ps.menuVisible THEN ps
    ELSE IF ps.isUnlocked THEN [ps EXCEPT !.menuVisible = TRUE]
    ELSE processSequenceButton(ps, 1)

(***************************************************************************)
(* SpecParent: the parent screen entered, and buttons A and B pressed in   *)
(* any order.                                                              *)
(***************************************************************************)
ParentEnter ==
    /\ parent' = ParentScreen_onEnter(parent)
    /\ UNCHANGED <<timer, now, h, ledger, sessionVars, app, rtc, ui, atSleep,
                   sleptAt, atLoss, polling>>

ParentButtonA ==
    /\ Len(parent.presses) < MaxPresses
    /\ ~parent.menuVisible
    /\ parent' = [ParentScreen_onButtonA(parent) EXCEPT
                     !.presses = Append(parent.presses, 0)]
    /\ UNCHANGED <<timer, now, h, ledger, sessionVars, app, rtc, ui, atSleep,
                   sleptAt, atLoss, polling>>

ParentButtonB ==
    /\ Len(parent.presses) < MaxPresses
    /\ parent' = [ParentScreen_onButtonB(parent) EXCEPT
                     !.presses = Append(parent.presses, 1)]
    /\ UNCHANGED <<timer, now, h, ledger, sessionVars, app, rtc, ui, atSleep,
                   sleptAt, atLoss, polling>>

NextParent ==
    \/ ParentEnter
    \/ ParentButtonA
    \/ ParentButtonB

SpecParent == InitTimer /\ [][NextParent]_vars

\* the last SEQUENCE_LENGTH presses are the expected sequence
EndsWithSequence(presses) ==
    /\ Len(presses) >= SEQUENCE_LENGTH
    /\ SubSeq(presses, Len(presses) - SEQUENCE_LENGTH + 1, Len(presses))
          = EXPECTED_SEQUENCE

\* C39: a press of A or B on the locked parent screen unlocks the parent
\* menu exactly when the last seven presses since the screen was entered
\* are A A A A A B A.
C39_UnlockedIffLastSevenMatch ==
    [][ (/\ ~parent.isUnlocked
         /\ Len(parent'.presses) = Len(parent.presses) + 1)
        => (parent'.isUnlocked <=> EndsWithSequence(parent'.presses)) ]_vars

====
